---- MODULE Spec2Model ----
(***************************************************************************)
(* Model of the account-service sign-in state machine of AssppWeb          *)
(* (frontend/src/apple/authenticate.ts).  One call of authenticate() is    *)
(* modelled: the service-discovery fetch, the while loop with its two      *)
(* counters, the classification of each response and the try/catch around  *)
(* the loop body.  The transport, the plist parser, the cookie merge and   *)
(* the bag fetch are collaborators: their results are inputs drawn from    *)
(* small sets.                                                             *)
(***************************************************************************)
EXTENDS Integers, Sequences, FiniteSets, TLC

(***************************************************************************)
(* Values                                                                  *)
(***************************************************************************)

\* JavaScript undefined, for optional strings.
Undef == "<undefined>"

\* A value is falsy when it is undefined or the empty string (!x).
Falsy(x) == x = Undef \/ x = ""

\* a ?? b
Coalesce(a, b) == IF a = Undef THEN b ELSE a

\* The caller's arguments that the claims do not vary.
Email == "user@example.com"

Password == "hunter2"

DeviceId == "a1b2c3d4e5f6"

\* code?: string -- not passed, passed empty, passed a six-digit code.
Codes == {Undef, "", "123456"}

\* Cookie jars are functions from cookie name to value.
EmptyJar == [n \in {} |-> ""]

Jar(n, v) == [x \in {n} |-> v]

\* existingCookies?: Cookie[] -- not passed, or a jar saved by an earlier call.
ExistingCookieArgs == {[given |-> FALSE, jar |-> EmptyJar],
                       [given |-> TRUE, jar |-> Jar("itspod", "old")]}

\* URLs: hostname, pathname and the query as a sequence of <<key, value>>.
AuthPath == "/WebObjects/MZFinance.woa/wa/authenticate"

DefaultAuthURL == [hostname |-> "buy.itunes.apple.com", pathname |-> AuthPath,
                   search |-> <<>>]

\* No bag has been fetched.
NoBag == [hostname |-> "", pathname |-> "", search |-> <<>>]

\* bag.authURL as service discovery may return it: the default host, or a
\* pod-specific host whose URL already carries query parameters.
BagAuthURLs == {DefaultAuthURL,
                [hostname |-> "p25-buy.itunes.apple.com", pathname |-> AuthPath,
                 search |-> <<<<"guid", "stale">>, <<"v", "1">>>>]}

\* url.searchParams.set(key, value): replace the first pair of that key (and
\* drop later ones), or append.
RECURSIVE DropKey(_, _)
DropKey(q, key) ==
    IF q = <<>> THEN <<>>
    ELSE IF Head(q)[1] = key THEN DropKey(Tail(q), key)
    ELSE <<Head(q)>> \o DropKey(Tail(q), key)

RECURSIVE SetParam(_, _, _)
SetParam(q, key, value) ==
    IF q = <<>> THEN <<<<key, value>>>>
    ELSE IF Head(q)[1] = key THEN <<<<key, value>>>> \o DropKey(Tail(q), key)
    ELSE <<Head(q)>> \o SetParam(Tail(q), key, value)

\* `${url.pathname}${url.search}`
PathOf(url) == [pathname |-> url.pathname, search |-> url.search]

\* Location header values a response may carry ("" is an absent header).
LocPod == "https://p71-buy.itunes.apple.com/WebObjects/MZFinance.woa/wa/authenticate?guid=a1b2c3d4e5f6"

LocRelative == "/WebObjects/MZFinance.woa/wa/authenticate"

\* new URL(location): parses an absolute URL and throws on anything else.
IsAbsoluteURL(s) == s = LocPod

ParseURL(s) == [hostname |-> "p71-buy.itunes.apple.com", pathname |-> AuthPath,
                search |-> <<<<"guid", DeviceId>>>>]

(***************************************************************************)
(* Responses of the transport                                              *)
(***************************************************************************)

\* The 2FA sentinel of customerMessage.
BadLoginSentinel == "MZFinance.BadLogin.Configurator_message"

\* dsPersonId absent from the plist.
NoNumber == -1

NoAccountInfo == [present |-> FALSE, appleId |-> Undef, hasAddress |-> FALSE,
                  firstName |-> Undef, lastName |-> Undef]

FullAccountInfo == [present |-> TRUE, appleId |-> "user@example.com",
                    hasAddress |-> TRUE, firstName |-> "Ada", lastName |-> "L"]

\* parsePlist(response.body) of a failure payload with no fields set.
EmptyDict == [failureType |-> Undef, customerMessage |-> Undef,
              explanation |-> Undef, accountInfo |-> NoAccountInfo,
              passwordToken |-> Undef, dsPersonId |-> NoNumber]

\* Header values are strings, "" standing for an absent header; the store
\* front header is a sequence of characters so that it can be split.
StoreUS == <<"1", "4", "3", "-", "1", ",", "2", "9">>

StoreNoPrefix == <<"-", "1">>

StoreJP == <<"1", "6", "5", "-", "2">>

\* A 200 response with a plist body and no optional header.
BaseResponse == [status |-> 200, location |-> "", storeHeader |-> <<>>,
                 pod |-> "", setCookies |-> EmptyJar, body |-> "plist",
                 dict |-> EmptyDict]

WithDict(d) == [BaseResponse EXCEPT !.dict = d]

SuccessDict == [EmptyDict EXCEPT !.accountInfo = FullAccountInfo,
                                 !.passwordToken = "tok",
                                 !.dsPersonId = 123456789]

\* Redirects: followed, without Location, with a Location that is no URL.
RedirectResponses ==
    {[BaseResponse EXCEPT !.status = 302, !.location = LocPod, !.body = "",
                          !.setCookies = Jar("hop", "1"),
                          !.storeHeader = StoreJP, !.pod = "71"],
     [BaseResponse EXCEPT !.status = 302, !.body = ""],
     [BaseResponse EXCEPT !.status = 302, !.location = LocRelative, !.body = ""]}

\* 404 and bodies that cannot be parsed.
BodylessResponses ==
    {[BaseResponse EXCEPT !.status = 404, !.body = ""],
     [BaseResponse EXCEPT !.status = 403, !.body = " \n",
                          !.setCookies = Jar("itspod", "25"),
                          !.storeHeader = StoreNoPrefix]}

\* Failure payloads.
FailureResponses ==
    {WithDict([EmptyDict EXCEPT !.failureType = "5020",
                                !.explanation = "This Apple ID has been locked"]),
     WithDict([EmptyDict EXCEPT !.failureType = "5020",
                                !.accountInfo = FullAccountInfo]),
     [WithDict([EmptyDict EXCEPT !.failureType = "-5000",
                                 !.customerMessage = "Bad login"])
        EXCEPT !.setCookies = Jar("mzf", "x")],
     WithDict([SuccessDict EXCEPT !.failureType = "-5000"]),
     WithDict([EmptyDict EXCEPT !.failureType = "",
                                !.customerMessage = BadLoginSentinel]),
     [WithDict([EmptyDict EXCEPT !.failureType = "",
                                 !.customerMessage = BadLoginSentinel])
        EXCEPT !.status = 404],
     WithDict([EmptyDict EXCEPT !.failureType = "",
                                !.customerMessage = "Bad login"]),
     WithDict(EmptyDict),
     WithDict([EmptyDict EXCEPT !.failureType = "",
                                !.customerMessage = "Bad login",
                                !.explanation = "Your session has expired"]),
     WithDict([EmptyDict EXCEPT
        !.accountInfo = [FullAccountInfo EXCEPT !.hasAddress = FALSE],
        !.explanation = "Update your address"])}

\* Success payloads.
SuccessResponses ==
    {[WithDict(SuccessDict) EXCEPT !.storeHeader = StoreUS, !.pod = "25",
                                   !.setCookies = Jar("itspod", "25")],
     WithDict(SuccessDict),
     WithDict([SuccessDict EXCEPT !.dsPersonId = NoNumber,
                                  !.passwordToken = Undef])}

Responses == RedirectResponses \cup BodylessResponses \cup FailureResponses
                 \cup SuccessResponses

\* What the history records when appleRequest itself throws.
NetworkFailure == [BaseResponse EXCEPT !.status = 0, !.body = ""]

(***************************************************************************)
(* Errors and the account record                                           *)
(***************************************************************************)

\* lastError: Error | null, kept as the error's message.
NoError == "<null>"

\* i18n.t(key) is kept as the key.
ErrRedirectLocation == "errors.auth.redirectLocation"

ErrRequiresVerification == "errors.auth.requiresVerification"

ErrEmptyBody == "errors.auth.emptyBody"

ErrMissingAccountInfo == "errors.auth.missingAccountInfo"

ErrMissingAddress == "errors.auth.missingAddress"

ErrUnknownReason == "errors.auth.unknownReason"

ErrInvalidURL == "Invalid URL"

ErrNetwork == "network error"

ErrBag == "bag fetch failed"

\* new Error(message)
PlainError(message) == [name |-> "Error", message |-> message,
                        codeRequired |-> FALSE]

\* new AuthenticationError(message, codeRequired)
AuthenticationError(message, codeRequired) ==
    [name |-> "AuthenticationError", message |-> message,
     codeRequired |-> codeRequired]

\* Nothing thrown (yet).
NoThrow == [name |-> "", message |-> "", codeRequired |-> FALSE]

\* Nothing returned (yet).
NoAccount == [email |-> Undef, password |-> Undef, appleId |-> Undef,
              store |-> <<>>, firstName |-> Undef, lastName |-> Undef,
              passwordToken |-> Undef, directoryServicesIdentifier |-> Undef,
              cookies |-> EmptyJar, deviceIdentifier |-> Undef, pod |-> Undef]

\* String(n) for a natural number.
Digit(d) == CASE d = 0 -> "0" [] d = 1 -> "1" [] d = 2 -> "2" [] d = 3 -> "3"
              [] d = 4 -> "4" [] d = 5 -> "5" [] d = 6 -> "6" [] d = 7 -> "7"
              [] d = 8 -> "8" [] d = 9 -> "9"

RECURSIVE NatToString(_)
NatToString(n) == IF n < 10 THEN Digit(n)
                  ELSE NatToString(n \div 10) \o Digit(n % 10)

\* Mutant: the identifier is cut to 32-bit half-words before printing.
DsidStringTruncated(d) == IF d = NoNumber THEN "" ELSE NatToString(d % 65536)

\* String(dict.dsPersonId ?? "")
DsidString(d) == IF d = NoNumber THEN "" ELSE NatToString(d)

(***************************************************************************)
(* State of one authenticate() call                                        *)
(***************************************************************************)

VARIABLES
    code, smsVerified, existingCookies,   \* the caller's arguments
    cookies, storeFront, lastError,       \* locals, lines 26-28
    requestHost, requestPath,             \* locals, lines 32-39
    currentAttempt, redirectAttempt,      \* locals, lines 41-42
    pc,                                   \* "start", "loop", "await", "done"
    result, thrown, account,              \* how the call ended
    bagFetches,                           \* history: calls of fetchBag
    bag,                                  \* the authURL fetchBag gave, line 35
    sent,                                 \* history: requests handed to appleRequest
    responses,                            \* history: what each request got
    \* idmsaSignin (idmsa.ts)
    client,                               \* the SRP client: A and p
    initResp, initData,                   \* the init response and its parsed body
    derivedKey, proofs,                   \* locals derivedKey, m1 and m2
    completeResp,                         \* the complete response
    signinPc,                             \* "idle", "init", "derive", "generate", "complete", "done"
    signinResult,                         \* how the sign-in ended
    signinSent,                           \* history: requests handed to appleRequest
    \* the forms and the useSmsVerification hook
    form,                                 \* "AddAccountForm" or "AccountDetail"
    needsCode, loading, codeInput,        \* form state
    sms, sessionRef,                      \* hook state and the session ref
    submit,                               \* the running handleSubmit / handleReauth
    hookTask,                             \* the running initiateSms / sendSms
    inFlight,                             \* history: calls not yet settled, per kind
    signalled,                            \* history: authenticate asked for a code
    hist,                                 \* history: what the hook's requests got
    \* one call of an identity-provider function of idmsa.ts
    fnCall,                               \* the function, its arguments, its request
    fnResp,                               \* what appleRequest gave
    fnResult                              \* what the function returned or threw

authVars == <<code, smsVerified, existingCookies, cookies, storeFront, lastError,
              requestHost, requestPath, currentAttempt, redirectAttempt, pc,
              result, thrown, account, bagFetches, bag, sent, responses>>

signinVars == <<client, initResp, initData, derivedKey, proofs, completeResp,
                signinPc, signinResult, signinSent>>

uiVars == <<form, needsCode, loading, codeInput, sms, sessionRef, submit,
            hookTask, inFlight, signalled, hist>>

fnVars == <<fnCall, fnResp, fnResult>>

vars == <<authVars, signinVars, uiVars, fnVars>>

args == <<code, smsVerified, existingCookies>>

(***************************************************************************)
(* idmsaSignin: values.  Byte strings, hashes and SRP numbers are abstract *)
(* terms; every conversion builds a new term, so two different inputs      *)
(* never give the same output.                                             *)
(***************************************************************************)

\* idmsa.ts line 71: SHA-256 of the password bytes.
Sha256(x) == "sha256(" \o x \o ")"

\* idmsa.ts lines 75-76: the UTF-8 bytes of the lowercase hex string.
ToHex(x) == "hex(" \o x \o ")"

\* idmsa.ts lines 79-90: PBKDF2-HMAC-SHA256, 256 bits.
Pbkdf2(key, salt, iterations) ==
    "pbkdf2(" \o key \o "," \o salt \o "," \o NatToString(iterations) \o ")"

\* Mutant: the protocol is ignored.
DerivePasswordIgnoringProtocol(protocol, password, salt, iterations) ==
    Pbkdf2(Sha256(password), salt, iterations)

\* idmsa.ts lines 63-93.
DerivePassword(protocol, password, salt, iterations) ==
    LET passHash == Sha256(password)
    IN Pbkdf2(IF protocol = "s2k_fo" THEN ToHex(passHash) ELSE passHash,
              salt, iterations)

\* idmsa.ts lines 95-101.
B64Encode(bytes) == "base64(" \o bytes \o ")"

\* The byte strings the identity provider sends: a salt, a server public
\* ephemeral, and the two degenerate ephemerals 0 and 2N.
ServerSalt == "salt"
ServerB == "B"
ZeroB == "0"
ModulusMultipleB == "2N"
ServerBytes == {ServerSalt, ServerB, ZeroB, ModulusMultipleB}

\* idmsa.ts lines 103-110: atob throws on a text that is not base64.
InvalidBytes == "<invalid base64>"
B64Decode(text) ==
    IF \E b \in ServerBytes : B64Encode(b) = text
    THEN CHOOSE b \in ServerBytes : B64Encode(b) = text
    ELSE InvalidBytes

\* idmsa.ts lines 124-129: the client as constructed, with the empty
\* password placeholder and its public ephemeral.
EmptyPassword == ""
ClientA == "A"
NewClient == [A |-> ClientA, p |-> EmptyPassword]
NoClient == [A |-> Undef, p |-> Undef]

InitPath == "/appleauth/auth/signin/init"
CompletePath == "/appleauth/auth/signin/complete?isRememberMeEnabled=true"
IdmsaHost == "idmsa.apple.com"

\* idmsa.ts lines 132-142.
InitRequest(c) ==
    [host |-> IdmsaHost, path |-> InitPath, method |-> "POST",
     body |-> [a |-> B64Encode(c.A), accountName |-> Email,
               protocols |-> <<"s2k", "s2k_fo">>,
               c |-> "", m1 |-> "", m2 |-> ""]]

\* idmsa.ts lines 179-195.
CompleteRequest(data, pr) ==
    [host |-> IdmsaHost, path |-> CompletePath, method |-> "POST",
     body |-> [a |-> "", accountName |-> Email, protocols |-> <<>>,
               c |-> data.c, m1 |-> B64Encode(pr.m1), m2 |-> B64Encode(pr.m2)]]

\* A body that JSON.parse rejects.
MalformedBody == [json |-> FALSE, iteration |-> 0, salt |-> "",
                  protocol |-> "", b |-> "", c |-> ""]

\* idmsa.ts lines 150-156: the bodies JSON.parse accepts.
InitBodies ==
    [json : {TRUE}, iteration : {1000, 20000},
     salt : {B64Encode(ServerSalt)}, protocol : {"s2k", "s2k_fo"},
     b : {B64Encode(ServerB), B64Encode(ZeroB), B64Encode(ModulusMultipleB)},
     c : {"c1"}]
    \cup {[json |-> TRUE, iteration |-> 1000, salt |-> "not base64!",
           protocol |-> "s2k", b |-> B64Encode(ServerB), c |-> "c1"]}

NoInitData == MalformedBody

\* What appleRequest gives for the init request.
InitStatuses == {200, 401, 409, 503}
InitResponses ==
    [arrived : {"response"}, status : {200}, body : InitBodies \cup {MalformedBody}]
    \cup [arrived : {"response"}, status : InitStatuses \ {200},
          body : {MalformedBody,
                  [json |-> TRUE, iteration |-> 1000,
                   salt |-> B64Encode(ServerSalt), protocol |-> "s2k",
                   b |-> B64Encode(ServerB), c |-> "c1"]}]

NoInitResponse == [arrived |-> "none", status |-> 0, body |-> MalformedBody]
InitRejected == [arrived |-> "rejected", status |-> 0, body |-> MalformedBody]

\* What appleRequest gives for the complete request: a status and the two
\* session headers, each present, empty or absent.
CompleteStatuses == {200, 409, 401, 500}
CompleteResponses ==
    [arrived : {"response"}, status : CompleteStatuses,
     sessionId : {Undef, "", "S1"}, scnt : {Undef, "T1"}]

NoCompleteResponse == [arrived |-> "none", status |-> 0,
                       sessionId |-> Undef, scnt |-> Undef]
CompleteRejected == [arrived |-> "rejected", status |-> 0,
                     sessionId |-> Undef, scnt |-> Undef]

NoKey == "<no key>"
NoProofs == [m1 |-> "", m2 |-> ""]
NoSession == [sessionId |-> "", scnt |-> ""]

ErrInitFailed(status) == "IDMSA signin/init failed: HTTP " \o NatToString(status)
ErrCompleteFailed(status) ==
    "IDMSA signin/complete failed: HTTP " \o NatToString(status)
ErrMissingSessionHeaders == "IDMSA signin: missing session headers"
ErrJsonParse == "SyntaxError: JSON.parse"
ErrInvalidBase64 == "InvalidCharacterError: atob"
ErrDegenerateB == "SRP: invalid server public ephemeral"

SigninPending == [kind |-> "pending", error |-> NoError, session |-> NoSession]
SigninThrown(e) == [kind |-> "thrown", error |-> e, session |-> NoSession]
SigninReturned(s) == [kind |-> "returned", error |-> NoError, session |-> s]

\* idmsaSignin has not been called.
SigninIdle ==
    /\ client = NoClient
    /\ initResp = NoInitResponse
    /\ initData = NoInitData
    /\ derivedKey = NoKey
    /\ proofs = NoProofs
    /\ completeResp = NoCompleteResponse
    /\ signinPc = "idle"
    /\ signinResult = SigninPending
    /\ signinSent = <<>>

(***************************************************************************)
(* The forms (AddAccountForm, AccountDetail) and the useSmsVerification    *)
(* hook: values.                                                           *)
(***************************************************************************)

Forms == {"AddAccountForm", "AccountDetail"}

Null == "<null>"

\* useSmsVerification.ts line 44: selectedPhoneId = null.
NullPhoneId == -1

PhoneA == [id |-> 1, numberWithDialCode |-> "+1 (***) ***-**01"]
PhoneB == [id |-> 2, numberWithDialCode |-> "+1 (***) ***-**02"]

\* useSmsVerification.ts lines 39-50: the hook as mounted.
SmsInitial ==
    [smsMode |-> FALSE, smsLoading |-> FALSE, phoneNumbers |-> <<>>,
     selectedPhoneId |-> NullPhoneId, smsSent |-> FALSE, smsPhone |-> Null,
     smsError |-> Null, cooldown |-> FALSE, tooManyCodes |-> FALSE,
     codeLocked |-> FALSE]

\* The sessions idmsaSignin can return (idmsa.ts line 211).
Sessions == {[sessionId |-> "S1", scnt |-> "T1"],
             [sessionId |-> "S2", scnt |-> "T2"]}

\* What the user can type into the code field.
CodeInputs == {"", "123456"}

\* No handleSubmit / handleReauth is running and none has run.
SubmitIdle ==
    [pc |-> "idle", smsWasVerified |-> FALSE, code |-> "",
     needsCode |-> FALSE, session |-> NoSession, phoneId |-> NullPhoneId,
     verifyStatus |-> 0, trust |-> "none", verifySmsCode |-> "none",
     called |-> FALSE, authCode |-> Undef, authSmsVerified |-> FALSE,
     outcome |-> "none"]

\* No initiateSms / sendSms is running.
HookIdle ==
    [op |-> "none", pc |-> "idle", session |-> NoSession,
     targetId |-> NullPhoneId, phones |-> <<>>]

\* What can be in flight: an authenticate call, an idmsaSignin call, or a
\* request of an identity-provider session.
CallKinds == {"authenticate", "idmsaSignin"} \cup {s.sessionId : s \in Sessions}
NoneInFlight == [k \in CallKinds |-> 0]

\* No enumeration of the trusted phones has been answered.
NoEnumeration ==
    [reported |-> FALSE, trustedPhoneNumbers |-> <<>>,
     securityCodeCooldown |-> FALSE, tooManyCodesSent |-> FALSE,
     securityCodeLocked |-> FALSE]

\* No dispatch request has been answered.
NoStatus == [answered |-> FALSE, status |-> 0]

\* Nothing has happened to the hook yet.
NoHistory ==
    [call |-> "none", enumeration |-> NoEnumeration, smsStatus |-> NoStatus,
     dispatched |-> FALSE, resetWhileLoading |-> FALSE, resetsOdd |-> FALSE]

\* The form as mounted.
UiMounted ==
    /\ needsCode = FALSE
    /\ loading = FALSE
    /\ codeInput = ""
    /\ sms = SmsInitial
    /\ sessionRef = NoSession
    /\ submit = SubmitIdle
    /\ hookTask = HookIdle
    /\ inFlight = NoneInFlight
    /\ signalled = FALSE
    /\ hist = NoHistory

UiIdle ==
    /\ form = "AddAccountForm"
    /\ UiMounted

\* No identity-provider function has been called.
NoCall == [fn |-> "none", pc |-> "idle"]
NoFnResponse == [arrived |-> "none"]
FnPending == [kind |-> "pending"]

FnIdle ==
    /\ fnCall = NoCall
    /\ fnResp = NoFnResponse
    /\ fnResult = FnPending

\* Lines 26-33 and 41-42: the locals as declared, before the bag is fetched.
Init ==
    /\ code \in Codes
    /\ smsVerified \in BOOLEAN
    /\ existingCookies \in ExistingCookieArgs
    /\ cookies = IF existingCookies.given THEN existingCookies.jar ELSE EmptyJar
    /\ storeFront = <<>>
    /\ lastError = NoError
    /\ requestHost = DefaultAuthURL.hostname
    /\ requestPath = PathOf([DefaultAuthURL EXCEPT
                        !.search = SetParam(@, "guid", DeviceId)])
    /\ currentAttempt = 0
    /\ redirectAttempt = 0
    /\ pc = "start"
    /\ result = "pending"
    /\ thrown = NoThrow
    /\ account = NoAccount
    /\ bagFetches = 0
    /\ bag = NoBag
    /\ sent = <<>>
    /\ responses = <<>>
    /\ SigninIdle
    /\ UiIdle
    /\ FnIdle

\* The call ends by throwing e.
Throw(e) ==
    /\ pc' = "done"
    /\ result' = "thrown"
    /\ thrown' = e
    /\ account' = account

\* Mutant: the fetched URL is ignored and the default endpoint is kept.
AuthEndpointDefault(url) ==
    [DefaultAuthURL EXCEPT !.search = SetParam(@, "guid", DeviceId)]

\* Lines 36-37: the fetched URL with the device identifier as guid.
AuthEndpoint(url) == [url EXCEPT !.search = SetParam(@, "guid", DeviceId)]

\* Lines 35-39: the bag answers; the request target is its authURL with guid set.
FetchBagOk ==
    /\ pc = "start"
    /\ \E url \in BagAuthURLs :
         LET authEndpoint == AuthEndpoint(url)
         IN /\ bag' = url
            /\ requestHost' = authEndpoint.hostname
            /\ requestPath' = PathOf(authEndpoint)
    /\ bagFetches' = bagFetches + 1
    /\ pc' = "loop"
    /\ UNCHANGED <<signinVars, uiVars, fnVars>>
    /\ UNCHANGED <<args, cookies, storeFront, lastError, currentAttempt,
                   redirectAttempt, result, thrown, account, sent, responses>>

\* Line 35: fetchBag rejects; nothing catches it.
FetchBagFails ==
    /\ pc = "start"
    /\ bagFetches' = bagFetches + 1
    /\ Throw(PlainError(ErrBag))
    /\ UNCHANGED <<bag, signinVars, uiVars, fnVars>>
    /\ UNCHANGED <<args, cookies, storeFront, lastError, requestHost,
                   requestPath, currentAttempt, redirectAttempt, sent, responses>>

\* Line 46: the loop condition.
MaxAttempts == 2

MaxRedirects == 3

\* Mutant: the attempt bound is inclusive.
LoopConditionInclusiveAttempts ==
    currentAttempt <= MaxAttempts /\ redirectAttempt <= MaxRedirects

\* Mutant: one more redirect is allowed.
LoopConditionExtraRedirect ==
    currentAttempt < MaxAttempts /\ redirectAttempt <= MaxRedirects + 1

\* Mutant: the two bounds are joined by "or".
LoopConditionEither ==
    currentAttempt < MaxAttempts \/ redirectAttempt <= MaxRedirects

LoopCondition == currentAttempt < MaxAttempts /\ redirectAttempt <= MaxRedirects

\* Mutant: the code is used although SMS verification was done.
UseCodeIgnoringSms == ~Falsy(code)

\* Lines 52-61: the form body.
UseCode == ~Falsy(code) /\ ~smsVerified

PasswordValue == IF UseCode THEN Password \o code ELSE Password

\* Mutant: the marker follows the attempt counter.
AttemptMarkerByCounter == IF UseCode \/ currentAttempt > 0 THEN "2" ELSE "4"

AttemptMarker == IF UseCode THEN "2" ELSE "4"

FormBody == [appleId |-> Email, attempt |-> AttemptMarker, guid |-> DeviceId,
             password |-> PasswordValue, rmp |-> "0", why |-> "signIn"]

\* Lines 46-47 and 55-78: the loop is entered, the counter incremented and
\* the request handed to the transport.  attempt and redirect are the two
\* counters as line 69 logs them.
SendRequest ==
    /\ pc = "loop"
    /\ LoopCondition
    /\ currentAttempt' = currentAttempt + 1
    /\ sent' = Append(sent, [host |-> requestHost, path |-> requestPath,
                             method |-> "POST", body |-> FormBody,
                             cookies |-> cookies,
                             attempt |-> currentAttempt + 1,
                             redirect |-> redirectAttempt])
    /\ pc' = "await"
    /\ UNCHANGED <<bag, signinVars, uiVars, fnVars>>
    /\ UNCHANGED <<args, cookies, storeFront, lastError, requestHost,
                   requestPath, redirectAttempt, result, thrown, account,
                   bagFetches, responses>>

\* Mutant: the recorded error is dropped.
FinalErrorAlwaysUnknown == ErrUnknownReason

\* Line 204: lastError ?? unknown reason.
FinalError == IF lastError = NoError THEN ErrUnknownReason ELSE lastError

\* Line 204: the loop is left without a return.
ExitLoop ==
    /\ pc = "loop"
    /\ ~LoopCondition
    /\ Throw(PlainError(FinalError))
    /\ UNCHANGED <<bag, signinVars, uiVars, fnVars>>
    /\ UNCHANGED <<args, cookies, storeFront, lastError, requestHost,
                   requestPath, currentAttempt, redirectAttempt, bagFetches,
                   sent, responses>>

(***************************************************************************)
(* The loop body, lines 80-196, and its catch, lines 197-201               *)
(***************************************************************************)

\* extractAndMergeCookies(rawHeaders, cookies): the response's cookies
\* replace those of the same name and the others are kept.
MergeCookies(setCookies, jar) ==
    [n \in DOMAIN jar \cup DOMAIN setCookies |->
        IF n \in DOMAIN setCookies THEN setCookies[n] ELSE jar[n]]

\* Mutant: the cookies of a redirect are not merged.
CookiesAfterUnlessRedirect(resp) ==
    IF resp.status = 302 THEN cookies
    ELSE MergeCookies(resp.setCookies, cookies)

\* Line 83: the jar after a response, whatever the response is.
CookiesAfter(resp) == MergeCookies(resp.setCookies, cookies)

\* storeHeader.split("-")[0]: the characters before the first "-".
RECURSIVE BeforeDash(_)
BeforeDash(s) ==
    IF s = <<>> \/ Head(s) = "-" THEN <<>>
    ELSE <<Head(s)>> \o BeforeDash(Tail(s))

\* Mutant: an empty prefix overwrites the store front.
ReadStoreFrontOverwriting(storeHeader, old) ==
    IF storeHeader # <<>> THEN BeforeDash(storeHeader) ELSE old

\* Lines 86-92: the store front after a response with this header.
ReadStoreFront(storeHeader, old) ==
    IF storeHeader # <<>> /\ BeforeDash(storeHeader) # <<>>
    THEN BeforeDash(storeHeader)
    ELSE old

\* Lines 95-96: podHeader || undefined
ReadPod(podHeader) == IF Falsy(podHeader) THEN Undef ELSE podHeader

\* Line 99.
IsRedirect(resp) == resp.status = 302

\* Mutant: a followed redirect keeps the attempt spent.
AttemptKeptAfterRedirect == currentAttempt

\* Line 108: a followed redirect gives the attempt back.
AttemptAfterRedirect == currentAttempt - 1

\* Line 109.
RedirectAfterRedirect == redirectAttempt + 1

\* Mutant: the 404 branch is taken with a code instead of without.
Is404WithCode(resp) == resp.status = 404 /\ ~Falsy(code)

\* Mutant: every 404 asks for a code, supplied or not.
Is404VerificationAnyCode(resp) == resp.status = 404

\* Line 114.
Is404Verification(resp) == resp.status = 404 /\ Falsy(code)

\* Line 123: !response.body.trim()
IsEmptyBody(resp) == resp.body \in {"", " \n"}

\* Mutant: the lock code is compared as a number's text with a sign.
IsAccountLockedSigned(dict) == dict.failureType = "-5020"

\* Line 138.
IsAccountLocked(dict) == dict.failureType = "5020"

\* Line 139.
LockMessage(dict) ==
    Coalesce(dict.explanation, Coalesce(dict.customerMessage, "Account locked"))

\* Line 145.
IsFirstAttemptRetry(dict) == dict.failureType = "-5000" /\ currentAttempt = 1

\* Lines 151-155.
IsVerificationSentinel(dict) ==
    /\ dict.failureType = ""
    /\ Falsy(code)
    /\ dict.customerMessage = BadLoginSentinel

\* Mutant: the customer message is preferred to the dialog explanation.
FailureMessageCustomerFirst(dict) ==
    Coalesce(dict.customerMessage, dict.explanation)

\* Lines 163-165.
FailureMessage(dict) == Coalesce(dict.explanation, dict.customerMessage)

\* Lines 181-193: the account assembled from a response, with the cookie
\* jar and the store front as they are after that response.
BuildAccount(resp, jar, store) ==
    [email |-> Email,
     password |-> Password,
     appleId |-> Coalesce(resp.dict.accountInfo.appleId, ""),
     store |-> store,
     firstName |-> Coalesce(resp.dict.accountInfo.firstName, ""),
     lastName |-> Coalesce(resp.dict.accountInfo.lastName, ""),
     passwordToken |-> Coalesce(resp.dict.passwordToken, ""),
     directoryServicesIdentifier |-> DsidString(resp.dict.dsPersonId),
     cookies |-> jar,
     deviceIdentifier |-> DeviceId,
     pod |-> ReadPod(resp.pod)]

\* How the try block ends for a response.
Continue(redirected) == [kind |-> "continue", redirected |-> redirected,
                         error |-> NoThrow]

Raise(e) == [kind |-> "throw", redirected |-> FALSE, error |-> e]

Return == [kind |-> "return", redirected |-> FALSE, error |-> NoThrow]

\* Lines 98-179: the branches of the try block in the order of the code.
TryBlock(resp) ==
    IF IsRedirect(resp) THEN
        IF Falsy(resp.location) THEN Raise(PlainError(ErrRedirectLocation))
        ELSE IF ~IsAbsoluteURL(resp.location) THEN Raise(PlainError(ErrInvalidURL))
        ELSE Continue(TRUE)
    ELSE IF Is404Verification(resp) THEN
        Raise(AuthenticationError(ErrRequiresVerification, TRUE))
    ELSE IF IsEmptyBody(resp) THEN Raise(PlainError(ErrEmptyBody))
    ELSE IF IsAccountLocked(resp.dict) THEN
        Raise(PlainError(LockMessage(resp.dict)))
    ELSE IF IsFirstAttemptRetry(resp.dict) THEN Continue(FALSE)
    ELSE IF IsVerificationSentinel(resp.dict) THEN
        Raise(AuthenticationError(ErrRequiresVerification, TRUE))
    ELSE IF ~resp.dict.accountInfo.present THEN
        Raise(PlainError(Coalesce(FailureMessage(resp.dict),
                                  ErrMissingAccountInfo)))
    ELSE IF ~resp.dict.accountInfo.hasAddress THEN
        Raise(PlainError(Coalesce(FailureMessage(resp.dict), ErrMissingAddress)))
    ELSE Return

\* Mutant: the catch block lets nothing through.
RethrownNever(e) == FALSE

\* Line 198: which errors the catch block lets through.
Rethrown(e) == e.name = "AuthenticationError"

\* Lines 197-201: an AuthenticationError leaves the call; any other error
\* is kept in lastError and control falls to the loop condition.
Catch(e) ==
    IF Rethrown(e)
    THEN /\ Throw(e)
         /\ lastError' = lastError
    ELSE /\ lastError' = e.message
         /\ pc' = "loop"
         /\ UNCHANGED <<result, thrown, account>>

\* Lines 71-196 for a request the transport answers.
Receive ==
    /\ pc = "await"
    /\ \E resp \in Responses :
        LET jar == CookiesAfter(resp)
            store == ReadStoreFront(resp.storeHeader, storeFront)
            end == TryBlock(resp)
        IN /\ responses' = Append(responses, resp)
           /\ cookies' = jar
           /\ storeFront' = store
           /\ IF end.kind = "continue" /\ end.redirected
              THEN /\ requestHost' = ParseURL(resp.location).hostname
                   /\ requestPath' = PathOf(ParseURL(resp.location))
                   /\ currentAttempt' = AttemptAfterRedirect
                   /\ redirectAttempt' = RedirectAfterRedirect
              ELSE UNCHANGED <<requestHost, requestPath, currentAttempt,
                               redirectAttempt>>
           /\ CASE end.kind = "continue" ->
                     /\ pc' = "loop"
                     /\ UNCHANGED <<lastError, result, thrown, account>>
                [] end.kind = "throw" -> Catch(end.error)
                [] end.kind = "return" ->
                     /\ pc' = "done"
                     /\ result' = "returned"
                     /\ account' = BuildAccount(resp, jar, store)
                     /\ UNCHANGED <<lastError, thrown>>
    /\ UNCHANGED <<bag, signinVars, uiVars, fnVars>>
    /\ UNCHANGED <<args, bagFetches, sent>>

\* Line 71: appleRequest rejects; the catch block takes the error.
RequestFails ==
    /\ pc = "await"
    /\ responses' = Append(responses, NetworkFailure)
    /\ Catch(PlainError(ErrNetwork))
    /\ UNCHANGED <<bag, signinVars, uiVars, fnVars>>
    /\ UNCHANGED <<args, cookies, storeFront, requestHost, requestPath,
                   currentAttempt, redirectAttempt, bagFetches, sent>>

Next ==
    \/ FetchBagOk
    \/ FetchBagFails
    \/ SendRequest
    \/ ExitLoop
    \/ Receive
    \/ RequestFails

Spec == Init /\ [][Next]_vars

(***************************************************************************)
(* Vocabulary of the properties: what the histories show, read from the    *)
(* requests and responses themselves.                                      *)
(***************************************************************************)

Answered == 1..Len(responses)

\* The caller supplied no code.
NoCode == code \in {Undef, ""}

\* Response i is a 302 whose Location is followed.
Followed(i) == responses[i].status = 302 /\ responses[i].location = LocPod

\* Response i is a 302 without a Location header.
RedirectWithoutLocation(i) ==
    responses[i].status = 302 /\ responses[i].location = ""

\* Response i is a 404 answering a call without a code.
NotFoundWithoutCode(i) == responses[i].status = 404 /\ NoCode

\* Response i has a body that is parsed as a plist.
Parsed(i) ==
    /\ responses[i] # NetworkFailure
    /\ responses[i].status # 302
    /\ ~NotFoundWithoutCode(i)
    /\ responses[i].body = "plist"

\* Response i is a parsed plist with this failureType.
Carries(i, failureType) ==
    Parsed(i) /\ responses[i].dict.failureType = failureType

\* Response i is a parsed plist carrying the 2FA sentinel, without a code.
SentinelWithoutCode(i) ==
    /\ Carries(i, "")
    /\ responses[i].dict.customerMessage = BadLoginSentinel
    /\ NoCode

\* Response i has an account-info section with an address.
HasAccount(i) ==
    /\ responses[i].dict.accountInfo.present
    /\ responses[i].dict.accountInfo.hasAddress

\* The message of a parsed response i that lacks an account: its dialog
\* explanation, else its customer message, else the generic message.
MessageOf(i) ==
    LET d == responses[i].dict
    IN IF d.explanation # Undef THEN d.explanation
       ELSE IF d.customerMessage # Undef THEN d.customerMessage
       ELSE IF d.accountInfo.present THEN ErrMissingAddress
       ELSE ErrMissingAccountInfo

\* The number of followed redirects among the responses so far.
FollowedCount == Cardinality({i \in Answered : Followed(i)})

\* The call ended with a plain error (not VerificationRequired, no account).
Failed == pc = "done" /\ result = "thrown" /\ ~thrown.codeRequired

\* The call ended with the VerificationRequired signal.
VerificationRequired ==
    /\ pc = "done"
    /\ result = "thrown"
    /\ thrown = AuthenticationError(ErrRequiresVerification, TRUE)

\* No request was sent after response i.
LastRequest(i) == Len(sent) = i

(***************************************************************************)
(* C1                                                                      *)
(***************************************************************************)

\* C1: when the first response carries failureType "5020", exactly one
\* request is sent in the whole call and the call fails.
C1_LockedNeverRetried ==
    (Len(responses) >= 1 /\ Carries(1, "5020")) =>
        /\ LastRequest(1)
        /\ result # "returned"

(***************************************************************************)
(* C2                                                                      *)
(***************************************************************************)

\* C2: a "-5000" on the first credential attempt is answered by exactly one
\* retry: the next request has the same form body, host and path, carries
\* the cookies of the request before merged with those of the response, and
\* is the second attempt; no request after it is a first attempt again, and
\* without any 302 in the call exactly 2 requests are sent.
C2_RetryOnceSameRequest ==
    \A i \in Answered :
        (Carries(i, "-5000") /\ sent[i].attempt = 1) =>
            /\ pc = "done" => Len(sent) > i
            /\ Len(sent) > i =>
                 /\ sent[i + 1].body = sent[i].body
                 /\ sent[i + 1].host = sent[i].host
                 /\ sent[i + 1].path = sent[i].path
                 /\ sent[i + 1].attempt = 2
                 /\ \A n \in DOMAIN sent[i].cookies :
                        n \in DOMAIN sent[i + 1].cookies
                 /\ \A n \in DOMAIN responses[i].setCookies :
                        /\ n \in DOMAIN sent[i + 1].cookies
                        /\ sent[i + 1].cookies[n] = responses[i].setCookies[n]
            /\ \A j \in (i + 1)..Len(sent) : sent[j].attempt = 2
            /\ Cardinality({j \in Answered : j > i /\ ~Followed(j)}) <= 1
            /\ (pc = "done" /\ \A j \in Answered : responses[j].status # 302)
                   => Len(sent) = 2

\* C2 witness: the call is over, the first response was a "-5000" that set
\* a cookie, and the second request was the last.
C2_Witness ==
    /\ pc = "done"
    /\ Len(responses) = 2
    /\ Carries(1, "-5000")
    /\ DOMAIN responses[1].setCookies # {}
    /\ existingCookies.given
    /\ Len(sent) = 2

(***************************************************************************)
(* C3                                                                      *)
(***************************************************************************)

C4_RedirectKeepsAttemptBudget ==
    /\ \A i \in Answered :
         Followed(i) =>
            /\ Len(sent) > i => sent[i + 1].attempt = sent[i].attempt
            /\ (i = Len(responses) /\ pc = "loop") =>
                   currentAttempt = sent[i].attempt - 1
    /\ \A i \in Answered :
         (i > 1 /\ Carries(i, "-5000") /\ \A j \in 1..(i - 1) : Followed(j)) =>
            /\ sent[i].attempt = 1
            /\ pc = "done" => Len(sent) > i
            /\ Len(sent) > i => sent[i + 1].attempt = 2

\* C4 witness: three redirects were followed, the fourth request got a
\* "-5000" and a fifth request was sent.
C4_Witness ==
    /\ Len(sent) = 5
    /\ \A j \in 1..3 : Followed(j)
    /\ Carries(4, "-5000")
    /\ sent[5].attempt = 2

(***************************************************************************)
(* C5                                                                      *)
(***************************************************************************)

\* C5: once a fourth 302 with a Location has been received, no request is
\* sent any more (none goes to the fourth Location) and the call does not
\* return an account; when the first four responses are such redirects the
\* call ends after 4 requests with the unknown-failure error.
C5_FourthRedirectEndsCall ==
    /\ FollowedCount >= 4 =>
         /\ FollowedCount = 4
         /\ Followed(Len(responses))
         /\ LastRequest(Len(responses))
         /\ pc \in {"loop", "done"}
         /\ pc = "done" => Failed
    /\ (Len(responses) >= 4 /\ \A j \in 1..4 : Followed(j)) =>
         /\ Len(sent) = 4
         /\ pc = "done" => Failed /\ thrown.message = ErrUnknownReason

\* C5 witness: the call failed after four 302 responses in a row.
C5_Witness ==
    /\ Failed
    /\ Len(responses) = 4
    /\ \A j \in 1..4 : Followed(j)

(***************************************************************************)
(* C6                                                                      *)
(***************************************************************************)

\* C6: in every call at most 2 requests are credential attempts (in flight,
\* or answered by anything but a followed redirect), at most 3 redirects
\* are followed, and no request is numbered beyond attempt 2 or hop 3.
C6_BoundedAttemptsAndHops ==
    /\ Cardinality({i \in 1..Len(sent) :
                       i > Len(responses) \/ ~Followed(i)}) <= 2
    /\ Cardinality({i \in 1..Len(sent) : i > 1 /\ Followed(i - 1)}) <= 3
    /\ \A i \in 1..Len(sent) : sent[i].attempt <= 2 /\ sent[i].redirect <= 3

\* C6 witness: a call that used both credential attempts and followed
\* three redirects.
C6_Witness ==
    /\ pc = "done"
    /\ Len(sent) = 5
    /\ Cardinality({i \in Answered : ~Followed(i)}) = 2
    /\ FollowedCount = 3

(***************************************************************************)
(* C7                                                                      *)
(***************************************************************************)

\* C7: a 404 answering a call without a code ends the call at once with the
\* VerificationRequired signal; no request is sent after it.
C7_NotFoundSignalsVerification ==
    \A i \in Answered :
        NotFoundWithoutCode(i) =>
            /\ VerificationRequired
            /\ LastRequest(i)
            /\ i = Len(responses)

\* C7 witness: VerificationRequired raised by a 404 on the second attempt.
C7_Witness ==
    /\ VerificationRequired
    /\ Len(responses) = 2
    /\ NotFoundWithoutCode(2)
    /\ responses[2].body = ""
    /\ sent[2].attempt = 2

(***************************************************************************)
(* C8                                                                      *)
(***************************************************************************)

\* C8: a response that is not a 302, has a plist body with failureType ""
\* and the sentinel as customerMessage, in a call without a code, ends the
\* call with the VerificationRequired signal and is not retried.
C8_SentinelSignalsVerification ==
    \A i \in Answered :
        (/\ responses[i] # NetworkFailure
         /\ responses[i].status # 302
         /\ responses[i].body = "plist"
         /\ responses[i].dict.failureType = ""
         /\ responses[i].dict.customerMessage = BadLoginSentinel
         /\ NoCode) =>
            /\ VerificationRequired
            /\ LastRequest(i)
            /\ i = Len(responses)

\* C8 witness: VerificationRequired raised by a 200 carrying the sentinel.
C8_Witness ==
    /\ VerificationRequired
    /\ SentinelWithoutCode(Len(responses))
    /\ responses[Len(responses)].status = 200

(***************************************************************************)
(* C9                                                                      *)
(***************************************************************************)

\* Response i ends its attempt with a failure other than "-5000": the
\* transport failed, the body is empty, or the plist carries another
\* failure and no account.
OtherFailure(i) ==
    \/ responses[i] = NetworkFailure
    \/ /\ responses[i].status # 302
       /\ ~NotFoundWithoutCode(i)
       /\ responses[i].body # "plist"
    \/ /\ Parsed(i)
       /\ responses[i].dict.failureType # "-5000"
       /\ ~SentinelWithoutCode(i)
       /\ ~HasAccount(i)

\* C9: when the first credential attempt ends in a failure that is not
\* "-5000", no other request is sent and the call fails.
C9_OnlyMinus5000Retried ==
    \A i \in Answered :
        (sent[i].attempt = 1 /\ OtherFailure(i)) =>
            /\ LastRequest(i)
            /\ result # "returned"

(***************************************************************************)
(* C10                                                                     *)
(***************************************************************************)

\* C10: after a 302 without a Location header no request is sent and the
\* call fails.
C10_RedirectWithoutLocationFatal ==
    \A i \in Answered :
        RedirectWithoutLocation(i) =>
            /\ LastRequest(i)
            /\ result # "returned"

(***************************************************************************)
(* C13                                                                     *)
(***************************************************************************)

\* The caller's jar overlaid with the cookies of responses 1..k in order.
RECURSIVE Accumulated(_)
Accumulated(k) ==
    IF k = 0
    THEN (IF existingCookies.given THEN existingCookies.jar ELSE EmptyJar)
    ELSE LET before == Accumulated(k - 1)
             new == responses[k].setCookies
         IN [n \in DOMAIN before \cup DOMAIN new |->
                IF n \in DOMAIN new THEN new[n] ELSE before[n]]

\* C13: the running cookie set is always the caller's cookies overlaid with
\* the cookies of every response received so far, redirects and failures
\* included; request i carries the set accumulated over responses 1..i-1,
\* and a returned account carries the set accumulated over all responses.
C13_CookiesAccumulate ==
    /\ cookies = Accumulated(Len(responses))
    /\ \A i \in 1..Len(sent) : sent[i].cookies = Accumulated(i - 1)
    /\ result = "returned" => account.cookies = Accumulated(Len(responses))

\* C13 witness: an account returned after a followed redirect and a failure
\* that both set cookies, on top of the caller's own.
C13_Witness ==
    /\ result = "returned"
    /\ existingCookies.given
    /\ Len(responses) = 3
    /\ Followed(1)
    /\ Carries(2, "-5000")
    /\ DOMAIN responses[1].setCookies # {}
    /\ DOMAIN responses[2].setCookies # {}
    /\ Cardinality(DOMAIN account.cookies) >= 3

(***************************************************************************)
(* C14                                                                     *)
(***************************************************************************)

\* The position of the first "-" in s, or Len(s) + 1.
FirstDash(s) ==
    IF \E k \in 1..Len(s) : s[k] = "-"
    THEN CHOOSE k \in 1..Len(s) :
            s[k] = "-" /\ \A j \in 1..(k - 1) : s[j] # "-"
    ELSE Len(s) + 1

\* The region code a header value supplies: what precedes its first "-".
RegionOf(header) == SubSeq(header, 1, FirstDash(header) - 1)

\* The last non-empty region code supplied by responses 1..k.
RECURSIVE LastRegion(_)
LastRegion(k) ==
    IF k = 0 THEN <<>>
    ELSE IF RegionOf(responses[k].storeHeader) # <<>>
         THEN RegionOf(responses[k].storeHeader)
         ELSE LastRegion(k - 1)

\* C14: the store front is always the last non-empty region code supplied
\* by a response of the call (the part of the header before its first "-");
\* a response with no header or an empty prefix leaves it unchanged, and a
\* returned account carries it.
C14_StoreFrontKeepsLastRegion ==
    /\ storeFront = LastRegion(Len(responses))
    /\ result = "returned" => account.store = LastRegion(Len(responses))

\* C14 witness: a region captured from the first response survives a
\* response with an empty prefix and a success response without the header.
C14_Witness ==
    /\ result = "returned"
    /\ Len(responses) = 3
    /\ responses[1].storeHeader = StoreJP
    /\ responses[2].storeHeader = StoreNoPrefix
    /\ responses[3].storeHeader = <<>>
    /\ account.store = <<"1", "6", "5">>

(***************************************************************************)
(* C15                                                                     *)
(***************************************************************************)

\* C15: every request has the password followed by the code and the marker
\* "2" when a (non-empty) code is supplied and smsVerified is false, and the
\* password alone and the marker "4" in every other case.
C15_PasswordFieldAndMarker ==
    \A i \in 1..Len(sent) :
        IF ~NoCode /\ ~smsVerified
        THEN /\ sent[i].body.password = "hunter2123456"
             /\ sent[i].body.attempt = "2"
        ELSE /\ sent[i].body.password = "hunter2"
             /\ sent[i].body.attempt = "4"

\* C15 witness: a retry was sent in a call with a code and smsVerified set.
C15_Witness ==
    /\ Len(sent) = 2
    /\ code = "123456"
    /\ smsVerified
    /\ sent[2].body.attempt = "4"

(***************************************************************************)
(* C16                                                                     *)
(***************************************************************************)

\* The message of the plain error response i raises on attempt a, or
\* NoError when it raises none.
RaisedBy(i, a) ==
    IF responses[i] = NetworkFailure THEN ErrNetwork
    ELSE IF responses[i].status = 302 THEN
        IF responses[i].location = "" THEN ErrRedirectLocation
        ELSE IF responses[i].location = LocRelative THEN ErrInvalidURL
        ELSE NoError
    ELSE IF NotFoundWithoutCode(i) THEN NoError
    ELSE IF responses[i].body # "plist" THEN ErrEmptyBody
    ELSE IF Carries(i, "5020") THEN
        (IF responses[i].dict.explanation # Undef
         THEN responses[i].dict.explanation
         ELSE IF responses[i].dict.customerMessage # Undef
              THEN responses[i].dict.customerMessage
              ELSE "Account locked")
    ELSE IF Carries(i, "-5000") /\ a = 1 THEN NoError
    ELSE IF SentinelWithoutCode(i) THEN NoError
    ELSE IF ~HasAccount(i) THEN MessageOf(i)
    ELSE NoError

\* The last error observed among responses 1..k, or NoError.
RECURSIVE LastObserved(_)
LastObserved(k) ==
    IF k = 0 THEN NoError
    ELSE IF RaisedBy(k, sent[k].attempt) # NoError
         THEN RaisedBy(k, sent[k].attempt)
         ELSE LastObserved(k - 1)

\* C16: a call that sent a request and ends with neither an account nor
\* the VerificationRequired signal throws the last error observed in the
\* call, or the unknown-failure error when none was recorded; lastError
\* always holds the last error observed so far.
C16_LastErrorRaised ==
    /\ lastError = LastObserved(Len(responses))
    /\ (Failed /\ Len(sent) > 0) =>
         /\ thrown.name = "Error"
         /\ thrown.message =
              IF LastObserved(Len(responses)) = NoError
              THEN ErrUnknownReason
              ELSE LastObserved(Len(responses))

\* C16 witness: the call failed with the error of its second attempt, not
\* the different error of its first.
C16_Witness ==
    /\ Failed
    /\ Len(responses) = 2
    /\ responses[1] = NetworkFailure
    /\ Carries(2, "5020")
    /\ thrown.message = "This Apple ID has been locked"

(***************************************************************************)
(* C17                                                                     *)
(***************************************************************************)

\* C17: an account is returned only on a response that is not a 302, has a
\* plist body, does not carry failureType "5020" and has an account-info
\* section with an address; it is the last response of the call.
C17_AccountOnlyFromCompleteResponse ==
    result = "returned" =>
        /\ pc = "done"
        /\ Len(responses) >= 1
        /\ LET r == responses[Len(responses)]
           IN /\ r # NetworkFailure
              /\ r.status # 302
              /\ r.body = "plist"
              /\ r.dict.failureType # "5020"
              /\ r.dict.accountInfo.present
              /\ r.dict.accountInfo.hasAddress

\* C17 witness: a locked response that had account-info yielded no account;
\* the account came from the response after it.
C17_Witness ==
    /\ result = "returned"
    /\ Len(responses) = 2
    /\ Carries(1, "5020")
    /\ HasAccount(1)

(***************************************************************************)
(* C18                                                                     *)
(***************************************************************************)

\* C18: a returned account has the decimal text of the response's
\* dsPersonId as directoryServicesIdentifier (123456789 gives "123456789"),
\* the caller's email, password and device identifier, and the pod header of
\* the response that succeeded, absent when that response has none.
C18_AccountFields ==
    result = "returned" =>
        LET r == responses[Len(responses)]
        IN /\ r.dict.dsPersonId = 123456789 =>
                account.directoryServicesIdentifier = "123456789"
           /\ account.email = "user@example.com"
           /\ account.password = "hunter2"
           /\ account.deviceIdentifier = "a1b2c3d4e5f6"
           /\ account.pod = IF r.pod = "" THEN Undef ELSE r.pod

\* C18 witness: an account with a numeric dsPersonId and no pod, returned
\* after a redirect that did carry a pod header.
C18_Witness ==
    /\ result = "returned"
    /\ Len(responses) = 2
    /\ responses[1].pod = "71"
    /\ responses[2].pod = ""
    /\ responses[2].dict.dsPersonId = 123456789
    /\ account.pod = Undef

(***************************************************************************)
(* C28                                                                     *)
(***************************************************************************)

\* The query pairs of q other than guid, in order.
OtherParams(q) == SelectSeq(q, LAMBDA kv : kv[1] # "guid")

\* The values of the guid pairs of q, in order.
GuidValues(q) ==
    LET g == SelectSeq(q, LAMBDA kv : kv[1] = "guid")
    IN [i \in 1..Len(g) |-> g[i][2]]

\* C28: the login endpoint is fetched exactly once per call and before the
\* first credential POST; the first POST goes to the host and path of the
\* fetched URL, with its other query parameters kept and guid set to the
\* device identifier; when the fetch fails no request is sent.
C28_EndpointFetchedOncePerCall ==
    /\ bagFetches <= 1
    /\ pc # "start" => bagFetches = 1
    /\ Len(sent) >= 1 =>
          /\ bagFetches = 1
          /\ bag \in BagAuthURLs
          /\ sent[1].host = bag.hostname
          /\ sent[1].path.pathname = bag.pathname
          /\ GuidValues(sent[1].path.search) = <<DeviceId>>
          /\ OtherParams(sent[1].path.search) = OtherParams(bag.search)
    /\ (bagFetches = 1 /\ bag = NoBag) =>
          /\ sent = <<>>
          /\ result = "thrown"
          /\ thrown.message = ErrBag

\* The first POST went to the pod host the bag named, with the stale guid
\* of the bag's URL replaced.
C28_Witness ==
    /\ Len(sent) >= 1
    /\ bag.hostname = "p25-buy.itunes.apple.com"
    /\ sent[1].host = "p25-buy.itunes.apple.com"
    /\ sent[1].path.search = <<<<"guid", DeviceId>>, <<"v", "1">>>>

(***************************************************************************)
(* C31                                                                     *)
(***************************************************************************)

\* Response i is a server response (the request did not fail in transport).
Observed(i) == responses[i] # NetworkFailure

\* Response i is the last server response of the call so far.
FinalObserved(i) ==
    Observed(i) /\ \A j \in Answered : j > i => ~Observed(j)

\* Response i reaches the account-info check of line 167 (it is not a lock,
\* not the "-5000" of a first attempt, not the 2FA sentinel) and has no
\* account-info section.
LacksAccountInfo(i) ==
    /\ Parsed(i)
    /\ ~Carries(i, "5020")
    /\ ~(Carries(i, "-5000") /\ sent[i].attempt = 1)
    /\ ~SentinelWithoutCode(i)
    /\ ~responses[i].dict.accountInfo.present

\* C31 as stated: when the last response the call observed lacks an
\* account-info section, the call fails with that response's dialog
\* explanation, else its customer message, else the generic message.
C31_FinalObservedMessage ==
    \A i \in Answered :
        (pc = "done" /\ FinalObserved(i) /\ LacksAccountInfo(i)) =>
            /\ Failed
            /\ thrown = PlainError(MessageOf(i))

\* What the code keeps of C31: when the last request of the call is answered
\* by a response that lacks an account-info section, the call
\* fails with that response's dialog explanation, else its customer message,
\* else the generic missing-account-info message.
C31_LastAnswerMessage ==
    \A i \in Answered :
        (pc = "done" /\ i = Len(responses) /\ LacksAccountInfo(i)) =>
            /\ Failed
            /\ thrown = PlainError(MessageOf(i))
            /\ MessageOf(i) =
                 Coalesce(responses[i].dict.explanation,
                     Coalesce(responses[i].dict.customerMessage,
                              ErrMissingAccountInfo))

\* The call failed on a last response that has both a dialog explanation and
\* a customer message and no account-info section.
C31_Witness ==
    /\ Failed
    /\ Len(responses) >= 1
    /\ LacksAccountInfo(Len(responses))
    /\ responses[Len(responses)].dict.explanation # Undef
    /\ responses[Len(responses)].dict.customerMessage # Undef
    /\ thrown.message = responses[Len(responses)].dict.explanation

(***************************************************************************)
(* C32                                                                     *)
(***************************************************************************)

\* Every step of a call is a step of the loop, the transport answers or
\* fails, and JavaScript runs the continuation: a call that can take a step
\* eventually takes one.
SpecLive == Init /\ [][Next]_vars /\ WF_vars(Next)

\* The most requests one call hands to appleRequest: the loop of line 46
\* runs while fewer than two attempts are used and at most three redirects
\* were followed, and every turn uses an attempt or follows a redirect.
MaxRequests == MaxAttempts + MaxRedirects

\* The call ended in exactly one of its three outcomes.
OneOutcome ==
    \/ /\ result = "returned"
       /\ account # NoAccount
       /\ thrown = NoThrow
    \/ /\ VerificationRequired
       /\ account = NoAccount
    \/ /\ Failed
       /\ thrown.name = "Error"
       /\ account = NoAccount

\* C32: every call ends, after at most 5 requests, in an account, in the
\* VerificationRequired signal or in an error, whatever the responses and
\* transport failures are; the redirect counter never decreases within a
\* call and counts every redirect followed so far, in either attempt.
C32_TerminatesWithinFiveRequests ==
    /\ <>(pc = "done")
    /\ [](Len(sent) <= MaxRequests)
    /\ [](pc = "done" => OneOutcome)
    /\ [](redirectAttempt = FollowedCount)
    /\ [][redirectAttempt' >= redirectAttempt]_vars

\* A call that used five requests: a failed first attempt, then redirects
\* until the redirect budget ended the call.
C32_Witness ==
    /\ pc = "done"
    /\ Len(sent) = MaxRequests
    /\ sent[1].attempt = 1
    /\ ~Followed(1)
    /\ FollowedCount = 4
    /\ Failed

(***************************************************************************)
(* C33                                                                     *)
(***************************************************************************)

\* Response i would ask for a code if none had been supplied: a 404, or a
\* plist carrying the 2FA sentinel.
AsksForCode(i) ==
    /\ Observed(i)
    /\ \/ responses[i].status = 404
       \/ /\ responses[i].body = "plist"
          /\ responses[i].dict.failureType = ""
          /\ responses[i].dict.customerMessage = BadLoginSentinel

\* The error an ordinary failure on response i leaves: the empty-body error,
\* else the message of the plist.
OrdinaryError(i) ==
    IF responses[i].body # "plist" THEN ErrEmptyBody ELSE MessageOf(i)

SigninThrow(e) ==
    /\ signinPc' = "done"
    /\ signinResult' = SigninThrown(e)

\* Lines 120-142: the client is built with the empty password, its public
\* ephemeral is read, and the init request is handed to appleRequest.
SigninStart ==
    /\ signinPc = "idle"
    /\ client' = NewClient
    /\ signinSent' = Append(signinSent, InitRequest(NewClient))
    /\ signinPc' = "init"
    /\ UNCHANGED <<initResp, initData, derivedKey, proofs, completeResp,
                   signinResult>>
    /\ UNCHANGED <<authVars, uiVars, fnVars>>

\* Mutant: every init response is taken as a success.
InitOkAlways(resp) == TRUE

\* Mutant: a 409 init response is taken as a success too.
InitOkOrConflict(resp) == resp.status \in {200, 409}

\* Line 144: the init response is accepted.
InitOk(resp) == resp.status = 200

\* Lines 144-160: the status check, JSON.parse, and the two decodings.
InitArrives ==
    /\ signinPc = "init"
    /\ \E resp \in InitResponses :
        /\ initResp' = resp
        /\ IF ~InitOk(resp)
           THEN /\ SigninThrow(ErrInitFailed(resp.status))
                /\ UNCHANGED initData
           ELSE IF ~resp.body.json
           THEN /\ SigninThrow(ErrJsonParse)
                /\ UNCHANGED initData
           ELSE IF InvalidBytes \in {B64Decode(resp.body.salt),
                                     B64Decode(resp.body.b)}
           THEN /\ SigninThrow(ErrInvalidBase64)
                /\ initData' = resp.body
           ELSE /\ initData' = resp.body
                /\ signinPc' = "derive"
                /\ UNCHANGED signinResult
    /\ UNCHANGED <<client, derivedKey, proofs, completeResp, signinSent>>
    /\ UNCHANGED <<authVars, uiVars, fnVars>>

\* Line 132: appleRequest rejects; nothing catches it.
InitFails ==
    /\ signinPc = "init"
    /\ initResp' = InitRejected
    /\ SigninThrow(ErrNetwork)
    /\ UNCHANGED <<client, initData, derivedKey, proofs, completeResp,
                   signinSent>>
    /\ UNCHANGED <<authVars, uiVars, fnVars>>

\* Lines 159-172: the key is derived from the decoded salt and the
\* iteration count of the init body and stored in the client.
DeriveKey ==
    /\ signinPc = "derive"
    /\ LET salt == B64Decode(initData.salt)
           key == DerivePassword(initData.protocol, Password, salt,
                                 initData.iteration)
       IN /\ derivedKey' = key
          /\ client' = [client EXCEPT !.p = key]
    /\ signinPc' = "generate"
    /\ UNCHANGED <<initResp, initData, proofs, completeResp, signinResult,
                   signinSent>>
    /\ UNCHANGED <<authVars, uiVars, fnVars>>

\* Mutant: only the ephemeral 0 is refused.
DegenerateBOnlyZero(B) == B = ZeroB

\* The SRP library refuses a server public ephemeral that is 0 modulo N.
DegenerateB(B) == B \in {ZeroB, ModulusMultipleB}

\* Lines 174-176: the proofs computed from the client and the server values.
GeneratedProofs(c, salt, B) ==
    [m1 |-> "M1(" \o c.A \o "," \o c.p \o "," \o salt \o "," \o B \o ")",
     m2 |-> "M2(" \o c.A \o "," \o c.p \o "," \o salt \o "," \o B \o ")"]

\* Lines 174-195: the proofs are generated and the complete request is
\* handed to appleRequest; a refused ephemeral ends the call.
GenerateProofs ==
    /\ signinPc = "generate"
    /\ LET salt == B64Decode(initData.salt)
           serverB == B64Decode(initData.b)
       IN IF DegenerateB(serverB)
          THEN /\ SigninThrow(ErrDegenerateB)
               /\ UNCHANGED <<proofs, signinSent>>
          ELSE /\ proofs' = GeneratedProofs(client, salt, serverB)
               /\ signinSent' = Append(signinSent,
                      CompleteRequest(initData,
                                      GeneratedProofs(client, salt, serverB)))
               /\ signinPc' = "complete"
               /\ UNCHANGED signinResult
    /\ UNCHANGED <<client, initResp, initData, derivedKey, completeResp>>
    /\ UNCHANGED <<authVars, uiVars, fnVars>>

\* Mutant: only a 200 complete response is accepted.
CompleteOkOnlySuccess(resp) == resp.status = 200

\* Line 198: the complete response is accepted.
CompleteOk(resp) == resp.status \in {409, 200}

\* Mutant: only the session id is required.
MissingSessionHeadersOnlyId(resp) == Falsy(resp.sessionId)

\* Line 207: a session header is absent or empty.
MissingSessionHeaders(resp) == Falsy(resp.sessionId) \/ Falsy(resp.scnt)

\* Lines 198-211: the status check and the two session headers.
CompleteArrives ==
    /\ signinPc = "complete"
    /\ \E resp \in CompleteResponses :
        /\ completeResp' = resp
        /\ IF ~CompleteOk(resp)
           THEN SigninThrow(ErrCompleteFailed(resp.status))
           ELSE IF MissingSessionHeaders(resp)
           THEN SigninThrow(ErrMissingSessionHeaders)
           ELSE /\ signinPc' = "done"
                /\ signinResult' = SigninReturned(
                       [sessionId |-> resp.sessionId, scnt |-> resp.scnt])
    /\ UNCHANGED <<client, initResp, initData, derivedKey, proofs, signinSent>>
    /\ UNCHANGED <<authVars, uiVars, fnVars>>

\* Line 179: appleRequest rejects; nothing catches it.
CompleteFails ==
    /\ signinPc = "complete"
    /\ completeResp' = CompleteRejected
    /\ SigninThrow(ErrNetwork)
    /\ UNCHANGED <<client, initResp, initData, derivedKey, proofs, signinSent>>
    /\ UNCHANGED <<authVars, uiVars, fnVars>>

\* authenticate is not running.
AuthIdle ==
    /\ code = Undef
    /\ smsVerified = FALSE
    /\ existingCookies \in ExistingCookieArgs
    /\ ~existingCookies.given
    /\ cookies = EmptyJar
    /\ storeFront = <<>>
    /\ lastError = NoError
    /\ requestHost = DefaultAuthURL.hostname
    /\ requestPath = PathOf([DefaultAuthURL EXCEPT
                        !.search = SetParam(@, "guid", DeviceId)])
    /\ currentAttempt = 0
    /\ redirectAttempt = 0
    /\ pc = "start"
    /\ result = "pending"
    /\ thrown = NoThrow
    /\ account = NoAccount
    /\ bagFetches = 0
    /\ bag = NoBag
    /\ sent = <<>>
    /\ responses = <<>>

SigninInit ==
    /\ SigninIdle
    /\ AuthIdle
    /\ UiIdle
    /\ FnIdle

SigninNext ==
    \/ SigninStart
    \/ InitArrives
    \/ InitFails
    \/ DeriveKey
    \/ GenerateProofs
    \/ CompleteArrives
    \/ CompleteFails

SpecSignin == SigninInit /\ [][SigninNext]_vars

(***************************************************************************)
(* Claims about idmsaSignin.                                               *)
(***************************************************************************)

\* The init request was the first request of the call and carried the
\* client public ephemeral.
InitSentFirst ==
    /\ Len(signinSent) >= 1
    /\ signinSent[1].path = InitPath
    /\ signinSent[1].body.a = B64Encode(ClientA)

\* The keys that can be derived from the password with the salt and the
\* iteration count of the init response received.
KeysFromInitResponse ==
    {Pbkdf2(k, B64Decode(initResp.body.salt), initResp.body.iteration) :
        k \in {Sha256(Password), ToHex(Sha256(Password))}}

KeyDerived == derivedKey # NoKey \/ client.p \notin {Undef, EmptyPassword}

ProofsGenerated == proofs # NoProofs

\* C19: the key is derived and the proofs are generated only after the init
\* request carrying A was sent and a 200 init response was received, and the
\* key is computed from the salt and the iteration count of that response;
\* when init fails (another status, or no response) neither ever happens.
C19_DeriveOnlyAfterInit ==
    /\ (KeyDerived \/ ProofsGenerated) =>
          /\ InitSentFirst
          /\ initResp.arrived = "response"
          /\ initResp.status = 200
          /\ initResp.body.json
          /\ derivedKey \in KeysFromInitResponse
          /\ client.p = derivedKey
    /\ ProofsGenerated => KeyDerived
    /\ (initResp.arrived = "rejected"
        \/ (initResp.arrived = "response" /\ initResp.status # 200)) =>
          /\ ~KeyDerived
          /\ ~ProofsGenerated
          /\ signinResult.kind = "thrown"

\* The proofs were generated from a key derived after a 200 init response.
C19_Witness ==
    /\ ProofsGenerated
    /\ KeyDerived
    /\ initResp.status = 200
    /\ initResp.body.iteration = 20000

\* The complete request was handed to appleRequest.
CompleteSent == \E i \in 1..Len(signinSent) : signinSent[i].path = CompletePath

\* C20: an init response with a status other than 200 fails the sign-in
\* with the init error, and the complete request is never sent.
C20_InitFailureFatal ==
    (initResp.arrived = "response" /\ initResp.status # 200) =>
        /\ signinResult = SigninThrown(ErrInitFailed(initResp.status))
        /\ signinPc = "done"
        /\ ~CompleteSent
        /\ Len(signinSent) = 1

\* A 409 init response with a well-formed body ended the sign-in.
C20_Witness ==
    /\ initResp.arrived = "response"
    /\ initResp.status = 409
    /\ initResp.body.json
    /\ signinResult.kind = "thrown"

CompleteAnswered == completeResp.arrived = "response"

\* C21: a complete response with status 200 or 409 is accepted (the call
\* does not fail with the complete error, and returns a session when both
\* session headers are there); any other status fails the sign-in with the
\* complete error and no session is returned.
C21_CompleteAcceptedStatuses ==
    CompleteAnswered =>
        /\ completeResp.status \in {200, 409} =>
              /\ signinResult.error # ErrCompleteFailed(completeResp.status)
              /\ (completeResp.sessionId = "S1" /\ completeResp.scnt = "T1")
                    => signinResult.kind = "returned"
        /\ completeResp.status \notin {200, 409} =>
              /\ signinResult =
                    SigninThrown(ErrCompleteFailed(completeResp.status))
              /\ signinResult.session = NoSession
        /\ signinPc = "done"

\* A 409 complete response with both headers gave a session.
C21_Witness ==
    /\ CompleteAnswered
    /\ completeResp.status = 409
    /\ signinResult.kind = "returned"

\* C22: a returned session has a non-empty session id and a non-empty
\* sequence token, both those of the complete response headers; an accepted
\* complete response lacking either header fails the sign-in with the
\* missing-session-headers error and no session.
C22_SessionFromHeaders ==
    /\ signinResult.kind = "returned" =>
          /\ CompleteAnswered
          /\ signinResult.session.sessionId # ""
          /\ signinResult.session.scnt # ""
          /\ signinResult.session.sessionId = completeResp.sessionId
          /\ signinResult.session.scnt = completeResp.scnt
    /\ (/\ CompleteAnswered
        /\ completeResp.status \in {200, 409}
        /\ (completeResp.sessionId = Undef \/ completeResp.scnt = Undef)) =>
          /\ signinResult = SigninThrown(ErrMissingSessionHeaders)
    /\ signinResult.kind # "returned" => signinResult.session = NoSession

\* Headers "S1" and "T1" on a 200 complete response gave that session.
C22_Witness ==
    /\ completeResp.status = 200
    /\ signinResult = SigninReturned([sessionId |-> "S1", scnt |-> "T1"])

\* The init response was accepted and carries a server public ephemeral
\* that is zero or a multiple of the group modulus.
DegenerateEphemeralReceived ==
    /\ initResp.arrived = "response"
    /\ initResp.status = 200
    /\ initResp.body.json
    /\ B64Decode(initResp.body.b) \in {ZeroB, ModulusMultipleB}

\* C30: with a degenerate server ephemeral no proofs are ever produced and
\* the complete request is never sent; once proof generation has been
\* reached the sign-in has failed with the ephemeral error.
C30_DegenerateEphemeralFatal ==
    DegenerateEphemeralReceived =>
        /\ proofs = NoProofs
        /\ ~CompleteSent
        /\ signinPc \notin {"complete"}
        /\ signinPc = "done" => signinResult = SigninThrown(ErrDegenerateB)

\* A multiple of the modulus ended the sign-in at proof generation.
C30_Witness ==
    /\ DegenerateEphemeralReceived
    /\ B64Decode(initResp.body.b) = ModulusMultipleB
    /\ derivedKey # NoKey
    /\ signinResult = SigninThrown(ErrDegenerateB)

(***************************************************************************)
(* The forms and the hook: AddAccountForm.handleSubmit (part_000 lines     *)
(* 28-66), AccountDetail.handleReauth (lines 360-396) and                  *)
(* useSmsVerification.  Each handler is cut at its awaits; the values a    *)
(* handler closes over are those of the render in which it was invoked.    *)
(***************************************************************************)

\* The call a handler is waiting for ("none" when it is not waiting).
WaitingSubmit(s) ==
    IF s.pc = "authenticate" THEN "authenticate"
    ELSE IF s.pc \in {"verify", "trust"} THEN s.session.sessionId
    ELSE "none"

WaitingHook(h) ==
    IF h.pc = "signin" THEN "idmsaSignin"
    ELSE IF h.pc \in {"phones", "sms"} THEN h.session.sessionId
    ELSE "none"

Begun(f, k) == IF k = "none" THEN f ELSE [f EXCEPT ![k] = @ + 1]
Settle(f, k) == IF k = "none" THEN f ELSE [f EXCEPT ![k] = @ - 1]

\* AddAccountForm leaves the page once the account is added (line 52).
Mounted == submit.pc # "left"

\* part_000 lines 37 and 366.
SmsWasVerified == sms.smsSent /\ needsCode /\ ~Falsy(codeInput)

\* part_000 lines 45 and 374: the code argument of authenticate.
CodeArgument(s) == IF s.needsCode /\ ~Falsy(s.code) THEN s.code ELSE Undef

\* part_000 lines 42-49 and 371-378: authenticate is called.
CallAuthenticate(s) ==
    [s EXCEPT !.pc = "authenticate", !.called = TRUE,
              !.authCode = CodeArgument(s),
              !.authSmsVerified = s.smsWasVerified]

\* part_000 lines 53-65 and 383-395: the catch block for an error that is
\* not a code request, then finally.
SubmitFailed(s) == [s EXCEPT !.pc = "idle", !.outcome = "error"]

\* Mutant: a failed verification is ignored and authenticate is called.
AfterVerifyRejectedProceeds(s) == CallAuthenticate(s)

\* part_000 lines 38-40 and 367-369: verifySmsCode throws inside the try
\* block, so control goes to the catch block.
AfterVerifyRejected(s) == SubmitFailed(s)

\* useSmsVerification.ts lines 153-157: verifySmsCode refuses to run.
VerifyRefused(session, phoneId) == session = NoSession \/ phoneId = NullPhoneId

\* Mutant: the submit button is never disabled.
SubmitEnabledAlways == TRUE

\* part_000 lines 271, 470 and 581: the buttons are disabled while the
\* handler runs.
SubmitEnabled == ~loading

\* The submit button or the verify button is pressed: lines 28-49 and
\* 360-378 up to the first await.
SubmitClick ==
    /\ Mounted
    /\ SubmitEnabled
    /\ LET s == [SubmitIdle EXCEPT !.smsWasVerified = SmsWasVerified,
                                   !.code = codeInput,
                                   !.needsCode = needsCode]
       IN IF ~s.smsWasVerified
          THEN /\ submit' = CallAuthenticate(s)
               /\ loading' = TRUE
          ELSE IF VerifyRefused(sessionRef, sms.selectedPhoneId)
          THEN /\ submit' = AfterVerifyRejected(
                                [s EXCEPT !.verifySmsCode = "rejected"])
               /\ loading' = (submit'.pc # "idle")
          ELSE /\ submit' = [s EXCEPT !.pc = "verify",
                                      !.session = sessionRef,
                                      !.phoneId = sms.selectedPhoneId]
               /\ loading' = TRUE
    /\ UNCHANGED <<form, needsCode, codeInput, sms, sessionRef, hookTask>>
    /\ inFlight' = Begun(inFlight, WaitingSubmit(submit'))
    /\ UNCHANGED signalled
    /\ UNCHANGED hist
    /\ UNCHANGED <<authVars, signinVars, fnVars>>

\* The user edits the code field (lines 149-161 and 455-464).
TypeCode ==
    /\ Mounted
    /\ needsCode
    /\ ~loading
    /\ \E c \in CodeInputs :
        /\ c # codeInput
        /\ codeInput' = c
    /\ UNCHANGED <<form, needsCode, loading, sms, sessionRef, submit, hookTask>>
    /\ UNCHANGED <<inFlight, signalled>>
    /\ UNCHANGED hist
    /\ UNCHANGED <<authVars, signinVars, fnVars>>

\* Mutant: every 2xx status is taken as verified.
VerifyAcceptedAny2xx(status) == status \in {200, 201, 202, 204}

\* idmsa.ts line 304: the verification response is accepted.
VerifyAccepted(status) == status \in {200, 204}

VerifyStatuses == {200, 204, 400, 401}

\* idmsa.ts lines 285-311 and useSmsVerification.ts lines 161-178: the
\* verification response arrives; on success the trust token is requested.
VerifyArrives ==
    /\ submit.pc = "verify"
    /\ \E status \in VerifyStatuses :
        LET s == [submit EXCEPT !.verifyStatus = status]
        IN IF VerifyAccepted(status)
           THEN /\ submit' = [s EXCEPT !.pc = "trust", !.trust = "sent"]
                /\ UNCHANGED loading
           ELSE /\ submit' = AfterVerifyRejected(
                                 [s EXCEPT !.verifySmsCode = "rejected"])
                /\ loading' = (submit'.pc # "idle")
    /\ UNCHANGED <<form, needsCode, codeInput, sms, sessionRef, hookTask>>
    /\ inFlight' = Begun(Settle(inFlight, WaitingSubmit(submit)),
                        WaitingSubmit(submit'))
    /\ UNCHANGED signalled
    /\ UNCHANGED hist
    /\ UNCHANGED <<authVars, signinVars, fnVars>>

\* idmsa.ts line 285: appleRequest rejects; verifySmsCode rethrows.
VerifyFails ==
    /\ submit.pc = "verify"
    /\ submit' = AfterVerifyRejected(
                     [submit EXCEPT !.verifySmsCode = "rejected"])
    /\ loading' = (submit'.pc # "idle")
    /\ UNCHANGED <<form, needsCode, codeInput, sms, sessionRef, hookTask>>
    /\ inFlight' = Begun(Settle(inFlight, WaitingSubmit(submit)),
                        WaitingSubmit(submit'))
    /\ UNCHANGED signalled
    /\ UNCHANGED hist
    /\ UNCHANGED <<authVars, signinVars, fnVars>>

TrustStatuses == {200, 204, 500}
TrustResponses == [status : TrustStatuses, token : {Undef, "", "TT1"}]

\* idmsa.ts lines 335-343: idmsaGetTrustToken.
TrustToken(resp) ==
    IF resp.status \notin {200, 204} THEN "thrown"
    ELSE IF Coalesce(resp.token, "") = "" THEN "empty"
    ELSE "token"

\* Mutant: a trust-token failure is rethrown.
VerifySmsCodeAfterTrustStrict(outcome) ==
    IF outcome = "thrown" THEN "rejected" ELSE "resolved"

\* useSmsVerification.ts lines 173-180: the try/catch around the
\* trust-token fetch swallows the error.
VerifySmsCodeAfterTrust(outcome) == "resolved"

\* verifySmsCode ends after the trust-token step; handleSubmit goes on.
AfterTrust(s, outcome) ==
    LET r == VerifySmsCodeAfterTrust(outcome)
        t == [s EXCEPT !.trust = outcome, !.verifySmsCode = r]
    IN IF r = "resolved" THEN CallAuthenticate(t) ELSE AfterVerifyRejected(t)

\* The trust-token response arrives.
TrustArrives ==
    /\ submit.pc = "trust"
    /\ \E resp \in TrustResponses :
        submit' = AfterTrust(submit, TrustToken(resp))
    /\ loading' = (submit'.pc # "idle")
    /\ UNCHANGED <<form, needsCode, codeInput, sms, sessionRef, hookTask>>
    /\ inFlight' = Begun(Settle(inFlight, WaitingSubmit(submit)),
                        WaitingSubmit(submit'))
    /\ UNCHANGED signalled
    /\ UNCHANGED hist
    /\ UNCHANGED <<authVars, signinVars, fnVars>>

\* idmsa.ts line 322: appleRequest rejects.
TrustFails ==
    /\ submit.pc = "trust"
    /\ submit' = AfterTrust(submit, "thrown")
    /\ loading' = (submit'.pc # "idle")
    /\ UNCHANGED <<form, needsCode, codeInput, sms, sessionRef, hookTask>>
    /\ inFlight' = Begun(Settle(inFlight, WaitingSubmit(submit)),
                        WaitingSubmit(submit'))
    /\ UNCHANGED signalled
    /\ UNCHANGED hist
    /\ UNCHANGED <<authVars, signinVars, fnVars>>

\* How an authenticate call can end for the form: authenticate.ts raises
\* the code request only when no code was passed (lines 114 and 153).
AuthenticateOutcomes(codeArg) ==
    {"account", "error"} \cup
        (IF Falsy(codeArg) THEN {"codeRequired"} ELSE {})

\* Mutant: every failure of authenticate opens the code field.
CodeRequiredCaughtAnyError(o) == o \in {"codeRequired", "error"}

\* part_000 lines 54 and 384: the error is a code request.
CodeRequiredCaught(o) == o = "codeRequired"

\* part_000 lines 50-65 and 379-395: authenticate settles.
AuthenticateEnds ==
    /\ submit.pc = "authenticate"
    /\ \E o \in AuthenticateOutcomes(submit.authCode) :
        /\ signalled' = (signalled \/ o = "codeRequired")
        /\ IF o = "account" /\ form = "AddAccountForm"
           THEN /\ submit' = [submit EXCEPT !.pc = "left", !.outcome = o]
                /\ UNCHANGED <<needsCode, codeInput>>
           ELSE IF o = "account"
           THEN /\ submit' = [submit EXCEPT !.pc = "idle", !.outcome = o]
                /\ needsCode' = FALSE
                /\ codeInput' = ""
           ELSE IF CodeRequiredCaught(o)
           THEN /\ submit' = [submit EXCEPT !.pc = "idle", !.outcome = o]
                /\ needsCode' = TRUE
                /\ UNCHANGED codeInput
           ELSE /\ submit' = SubmitFailed(submit)
                /\ UNCHANGED <<needsCode, codeInput>>
    /\ loading' = FALSE
    /\ UNCHANGED <<form, sms, sessionRef, hookTask>>
    /\ inFlight' = Begun(Settle(inFlight, WaitingSubmit(submit)),
                        WaitingSubmit(submit'))
    /\ UNCHANGED hist
    /\ UNCHANGED <<authVars, signinVars, fnVars>>

ErrSigninFailed == "IDMSA sign-in failed"
ErrAuthInfoFailed == "IDMSA get auth info failed"
ErrSmsRequestFailed == "IDMSA SMS request failed"
ErrNoPhoneNumbers == "errors.auth.noPhoneNumbers"

\* The "use SMS" button is pressed (part_000 lines 170-178 and 481-486):
\* useSmsVerification.ts lines 82-93 up to the await of idmsaSignin.
InitiateSmsStart ==
    /\ sms' = [sms EXCEPT !.smsMode = TRUE, !.smsLoading = TRUE,
                          !.smsError = Null, !.smsSent = FALSE,
                          !.smsPhone = Null, !.cooldown = FALSE,
                          !.tooManyCodes = FALSE, !.codeLocked = FALSE]
    /\ hookTask' = [HookIdle EXCEPT !.op = "initiateSms", !.pc = "signin"]
    /\ hist' = [hist EXCEPT !.call = "initiateSms",
                            !.enumeration = NoEnumeration,
                            !.smsStatus = NoStatus,
                            !.dispatched = FALSE]
    /\ UNCHANGED sessionRef

\* The "send code by SMS" button is pressed (part_000 lines 171-178 and
\* 484-485).
InitiateClick ==
    /\ Mounted
    /\ needsCode
    /\ ~sms.smsMode
    /\ ~loading
    /\ ~sms.smsLoading
    /\ InitiateSmsStart
    /\ UNCHANGED <<form, needsCode, loading, codeInput, submit>>
    /\ inFlight' = Begun(inFlight, WaitingHook(hookTask'))
    /\ UNCHANGED signalled
    /\ UNCHANGED <<authVars, signinVars, fnVars>>

\* Mutant: the catch block records the error and leaves smsLoading set.
HookCatchKeepsLoading(message) ==
    /\ sms' = [sms EXCEPT !.smsError = message]
    /\ hookTask' = HookIdle

\* useSmsVerification.ts lines 139-144 and 70-76: the catch block of the
\* running hook operation.
HookCatch(message) ==
    /\ sms' = [sms EXCEPT !.smsError = message, !.smsLoading = FALSE]
    /\ hookTask' = HookIdle

\* Lines 93-97: idmsaSignin returns a session; it is kept in the ref and
\* the phone numbers are requested.
SigninReturns ==
    /\ hookTask.pc = "signin"
    /\ \E session \in Sessions :
        /\ sessionRef' = session
        /\ hookTask' = [hookTask EXCEPT !.pc = "phones", !.session = session]
    /\ UNCHANGED <<form, needsCode, loading, codeInput, sms, submit>>
    /\ inFlight' = Begun(Settle(inFlight, WaitingHook(hookTask)),
                        WaitingHook(hookTask'))
    /\ UNCHANGED signalled
    /\ UNCHANGED hist
    /\ UNCHANGED <<authVars, signinVars, fnVars>>

\* Line 93: idmsaSignin throws.
SigninThrows ==
    /\ hookTask.pc = "signin"
    /\ HookCatch(ErrSigninFailed)
    /\ UNCHANGED <<form, needsCode, loading, codeInput, sessionRef, submit>>
    /\ inFlight' = Begun(Settle(inFlight, WaitingHook(hookTask)),
                        WaitingHook(hookTask'))
    /\ UNCHANGED signalled
    /\ UNCHANGED hist
    /\ UNCHANGED <<authVars, signinVars, fnVars>>

PhoneLists == {<<>>, <<PhoneA>>, <<PhoneA, PhoneB>>}

\* The values a flag of the securityCode object can have in the JSON body:
\* true, false, or absent.
JsonFlags == {"true", "false", Undef}

\* x === true
IsTrue(x) == x = "true"

\* The answers to GET /appleauth/auth: a status and the parsed body.
PhoneResponses ==
    [status : {200}, trustedPhoneNumbers : PhoneLists,
     securityCodeCooldown : JsonFlags, tooManyCodesSent : JsonFlags,
     securityCodeLocked : JsonFlags]
    \cup {[status |-> 401, trustedPhoneNumbers |-> <<PhoneA>>,
           securityCodeCooldown |-> "false", tooManyCodesSent |-> "false",
           securityCodeLocked |-> "false"]}

\* Mutant: only the explicit cooldown flag is reported.
PhoneNumbersResultExplicitOnly(resp) ==
    [trustedPhoneNumbers |-> resp.trustedPhoneNumbers,
     securityCodeCooldown |-> IsTrue(resp.securityCodeCooldown),
     tooManyCodesSent |-> IsTrue(resp.tooManyCodesSent),
     securityCodeLocked |-> IsTrue(resp.securityCodeLocked)]

\* idmsa.ts lines 240-247: the result of idmsaGetPhoneNumbers.
PhoneNumbersResult(resp) ==
    [trustedPhoneNumbers |-> resp.trustedPhoneNumbers,
     securityCodeCooldown |-> IsTrue(resp.tooManyCodesSent)
                                \/ IsTrue(resp.securityCodeCooldown),
     tooManyCodesSent |-> IsTrue(resp.tooManyCodesSent),
     securityCodeLocked |-> IsTrue(resp.securityCodeLocked)]

\* Mutant: a cooldown does not stop initiateSms.
RateLimitFlagIgnoringCooldown(r) ==
    IF r.securityCodeLocked THEN "codeLocked"
    ELSE IF r.tooManyCodesSent THEN "tooManyCodes"
    ELSE "none"

\* Mutant: the cooldown is looked at before the other two flags.
RateLimitFlagCooldownFirst(r) ==
    IF r.securityCodeCooldown THEN "cooldown"
    ELSE IF r.securityCodeLocked THEN "codeLocked"
    ELSE IF r.tooManyCodesSent THEN "tooManyCodes"
    ELSE "none"

\* useSmsVerification.ts lines 99-115: the flag of the hook that a
\* rate-limited enumeration sets.
RateLimitFlag(r) ==
    IF r.securityCodeLocked THEN "codeLocked"
    ELSE IF r.tooManyCodesSent THEN "tooManyCodes"
    ELSE IF r.securityCodeCooldown THEN "cooldown"
    ELSE "none"

\* Mutant: an SMS is sent to the first phone whenever there is one.
AutoSendsFirstPhone(phones) == Len(phones) >= 1

\* useSmsVerification.ts line 127: the SMS is sent without asking.
AutoSends(phones) == Len(phones) = 1

\* useSmsVerification.ts lines 97-138 and idmsa.ts lines 224-247: the
\* enumeration arrives.
PhonesArrive ==
    /\ hookTask.pc = "phones"
    /\ \E resp \in PhoneResponses :
        LET r == PhoneNumbersResult(resp)
            phones == r.trustedPhoneNumbers
            flag == RateLimitFlag(r)
        IN /\ hist' = [hist EXCEPT !.enumeration =
                          IF resp.status # 200 THEN NoEnumeration
                          ELSE [reported |-> TRUE] @@ r]
           /\ IF resp.status # 200 THEN HookCatch(ErrAuthInfoFailed)
              ELSE IF flag # "none"
              THEN /\ sms' = [sms EXCEPT ![flag] = TRUE, !.smsLoading = FALSE]
                   /\ hookTask' = HookIdle
              ELSE IF Len(phones) = 0
              THEN /\ sms' = [sms EXCEPT !.phoneNumbers = phones,
                                         !.smsError = ErrNoPhoneNumbers,
                                         !.smsLoading = FALSE]
                   /\ hookTask' = HookIdle
              ELSE IF AutoSends(phones)
              THEN /\ sms' = [sms EXCEPT !.phoneNumbers = phones,
                                         !.selectedPhoneId = phones[1].id]
                   /\ hookTask' = [hookTask EXCEPT !.pc = "sms",
                                                   !.targetId = phones[1].id,
                                                   !.phones = phones]
              ELSE /\ sms' = [sms EXCEPT !.phoneNumbers = phones,
                                         !.selectedPhoneId = phones[1].id,
                                         !.smsLoading = FALSE]
                   /\ hookTask' = HookIdle
    /\ UNCHANGED <<form, needsCode, loading, codeInput, sessionRef, submit>>
    /\ inFlight' = Begun(Settle(inFlight, WaitingHook(hookTask)),
                        WaitingHook(hookTask'))
    /\ UNCHANGED signalled
    /\ UNCHANGED <<authVars, signinVars, fnVars>>

\* idmsa.ts line 217: appleRequest rejects.
PhonesFail ==
    /\ hookTask.pc = "phones"
    /\ HookCatch(ErrNetwork)
    /\ UNCHANGED <<form, needsCode, loading, codeInput, sessionRef, submit>>
    /\ inFlight' = Begun(Settle(inFlight, WaitingHook(hookTask)),
                        WaitingHook(hookTask'))
    /\ UNCHANGED signalled
    /\ UNCHANGED hist
    /\ UNCHANGED <<authVars, signinVars, fnVars>>

\* A radio button of the phone list is chosen (part_000 lines 219-236).
SelectPhone ==
    /\ Mounted
    /\ needsCode
    /\ sms.smsMode
    /\ ~sms.smsLoading
    /\ ~sms.smsSent
    /\ Len(sms.phoneNumbers) > 1
    /\ \E i \in 1..Len(sms.phoneNumbers) :
        /\ sms.phoneNumbers[i].id # sms.selectedPhoneId
        /\ sms' = [sms EXCEPT !.selectedPhoneId = sms.phoneNumbers[i].id]
    /\ UNCHANGED <<form, needsCode, loading, codeInput, sessionRef, submit,
                   hookTask>>
    /\ UNCHANGED <<inFlight, signalled>>
    /\ UNCHANGED hist
    /\ UNCHANGED <<authVars, signinVars, fnVars>>

\* sendSms() is called without its optional argument.
NoPhoneIdGiven == -2

\* Mutant: sendSms checks its target only.
SendSmsReturnsEarlyNoTarget(session, targetId) == targetId = NullPhoneId

\* useSmsVerification.ts lines 55 and 58: sendSms returns at once.
SendSmsReturnsEarly(session, targetId) ==
    session = NoSession \/ targetId = NullPhoneId

\* useSmsVerification.ts lines 54-64: sendSms up to the await of
\* idmsaRequestSms; phoneId ?? selectedPhoneId is the target.
SendSmsStart(phoneId) ==
    LET targetId == IF phoneId = NoPhoneIdGiven THEN sms.selectedPhoneId
                    ELSE phoneId
    IN /\ IF SendSmsReturnsEarly(sessionRef, targetId)
          THEN /\ hist' = [hist EXCEPT !.call = "sendSms returned early"]
               /\ UNCHANGED <<sms, hookTask>>
          ELSE /\ sms' = [sms EXCEPT !.smsLoading = TRUE, !.smsError = Null]
               /\ hookTask' = [op |-> "sendSms", pc |-> "sms",
                               session |-> sessionRef,
                               targetId |-> targetId,
                               phones |-> sms.phoneNumbers]
               /\ hist' = [hist EXCEPT !.call = "sendSms",
                                       !.enumeration = NoEnumeration,
                                       !.smsStatus = NoStatus]
       /\ UNCHANGED sessionRef

\* The "send code" button is pressed (part_000 lines 219-250).
SendClick ==
    /\ Mounted
    /\ needsCode
    /\ sms.smsMode
    /\ ~sms.smsLoading
    /\ ~sms.smsSent
    /\ Len(sms.phoneNumbers) > 1
    /\ sms.selectedPhoneId # NullPhoneId
    /\ SendSmsStart(NoPhoneIdGiven)
    /\ UNCHANGED <<form, needsCode, loading, codeInput, submit>>
    /\ inFlight' = Begun(inFlight, WaitingHook(hookTask'))
    /\ UNCHANGED signalled
    /\ UNCHANGED <<authVars, signinVars, fnVars>>

\* Mutant: 204 is taken as sent too.
SmsAcceptedNoContent(status) == status \in {200, 202, 204}

\* idmsa.ts line 266: the dispatch response is accepted.
SmsAccepted(status) == status \in {200, 202}

SmsStatuses == {200, 202, 400}

\* useSmsVerification.ts line 68-69: the display string of the target phone.
PhoneDisplay(phones, id) ==
    IF \E i \in 1..Len(phones) : phones[i].id = id
    THEN LET i == CHOOSE j \in 1..Len(phones) :
                      /\ phones[j].id = id
                      /\ \A k \in 1..(j - 1) : phones[k].id # id
         IN phones[i].numberWithDialCode
    ELSE Null

\* useSmsVerification.ts lines 129-133 and 64-76: the dispatch response
\* arrives, for the auto-send of initiateSms or for sendSms.
SmsArrives ==
    /\ hookTask.pc = "sms"
    /\ \E status \in SmsStatuses :
        /\ hist' = [hist EXCEPT !.smsStatus = [answered |-> TRUE,
                                              status |-> status],
                                !.dispatched = @ \/ status \in {200, 202}]
        /\ IF ~SmsAccepted(status) THEN HookCatch(ErrSmsRequestFailed)
           ELSE /\ sms' = [sms EXCEPT
                             !.smsSent = TRUE,
                             !.selectedPhoneId =
                                 IF hookTask.op = "sendSms"
                                 THEN hookTask.targetId ELSE @,
                             !.smsPhone = PhoneDisplay(hookTask.phones,
                                                       hookTask.targetId),
                             !.smsLoading = FALSE]
                /\ hookTask' = HookIdle
    /\ UNCHANGED <<form, needsCode, loading, codeInput, sessionRef, submit>>
    /\ inFlight' = Begun(Settle(inFlight, WaitingHook(hookTask)),
                        WaitingHook(hookTask'))
    /\ UNCHANGED signalled
    /\ UNCHANGED <<authVars, signinVars, fnVars>>

\* idmsa.ts line 254: appleRequest rejects.
SmsFails ==
    /\ hookTask.pc = "sms"
    /\ HookCatch(ErrNetwork)
    /\ UNCHANGED <<form, needsCode, loading, codeInput, sessionRef, submit>>
    /\ inFlight' = Begun(Settle(inFlight, WaitingHook(hookTask)),
                        WaitingHook(hookTask'))
    /\ UNCHANGED signalled
    /\ hist' = [hist EXCEPT !.smsStatus = [answered |-> TRUE, status |-> 0]]
    /\ UNCHANGED <<authVars, signinVars, fnVars>>

\* Mutant: resetSms keeps smsSent.
ResetStateKeepingSent(h) == [SmsInitial EXCEPT !.smsSent = h.smsSent]

\* Mutant: resetSms keeps the phone list.
ResetStateKeepingPhones(h) ==
    [SmsInitial EXCEPT !.phoneNumbers = h.phoneNumbers]

\* useSmsVerification.ts lines 186-195: the state resetSms leaves.
ResetState(h) == SmsInitial

\* useSmsVerification.ts lines 185-197: resetSms.  An operation that is
\* waiting for an answer is not cancelled.
ResetSms ==
    /\ sms' = ResetState(sms)
    /\ sessionRef' = NoSession
    /\ hist' = [hist EXCEPT !.call = "resetSms",
                            !.enumeration = NoEnumeration,
                            !.smsStatus = NoStatus,
                            !.dispatched = FALSE,
                            !.resetWhileLoading = @ \/ sms.smsLoading,
                            !.resetsOdd = ~@]
    /\ UNCHANGED hookTask

\* The "use device code instead" button is pressed (part_000 lines 253-260
\* and 566-567).
ResetClick ==
    /\ Mounted
    /\ needsCode
    /\ sms.smsMode
    /\ ~sms.smsLoading
    /\ ResetSms
    /\ UNCHANGED <<form, needsCode, loading, codeInput, submit>>
    /\ UNCHANGED <<inFlight, signalled>>
    /\ UNCHANGED <<authVars, signinVars, fnVars>>

UiInit ==
    /\ form \in Forms
    /\ UiMounted
    /\ AuthIdle
    /\ SigninIdle
    /\ FnIdle

UiNext ==
    \/ SubmitClick
    \/ TypeCode
    \/ VerifyArrives
    \/ VerifyFails
    \/ TrustArrives
    \/ TrustFails
    \/ AuthenticateEnds
    \/ InitiateClick
    \/ SigninReturns
    \/ SigninThrows
    \/ PhonesArrive
    \/ PhonesFail
    \/ SelectPhone
    \/ SendClick
    \/ SmsArrives
    \/ SmsFails
    \/ ResetClick

SpecUi == UiInit /\ [][UiNext]_vars

(***************************************************************************)
(* The useSmsVerification hook by itself: its functions are called in any  *)
(* order and in any state, without the guards of the forms' buttons.  One  *)
(* of initiateSms, sendSms and verifySmsCode runs at a time; resetSms and   *)
(* setSelectedPhoneId are called at any moment.                            *)
(***************************************************************************)

\* initiateSms() is called.
CallInitiateSms ==
    /\ hookTask.pc = "idle"
    /\ submit = SubmitIdle
    /\ InitiateSmsStart
    /\ UNCHANGED <<form, needsCode, loading, codeInput, submit>>
    /\ inFlight' = Begun(inFlight, WaitingHook(hookTask'))
    /\ UNCHANGED signalled
    /\ UNCHANGED <<authVars, signinVars, fnVars>>

\* sendSms() or sendSms(phoneId) is called.
CallSendSms ==
    /\ hookTask.pc = "idle"
    /\ submit = SubmitIdle
    /\ \E phoneId \in {NoPhoneIdGiven, PhoneA.id, PhoneB.id} :
        SendSmsStart(phoneId)
    /\ UNCHANGED <<form, needsCode, loading, codeInput, submit>>
    /\ inFlight' = Begun(inFlight, WaitingHook(hookTask'))
    /\ UNCHANGED signalled
    /\ UNCHANGED <<authVars, signinVars, fnVars>>

\* setSelectedPhoneId(id) is called with the id of a phone.
CallSetSelectedPhoneId ==
    /\ \E id \in {PhoneA.id, PhoneB.id} :
        /\ id # sms.selectedPhoneId
        /\ sms' = [sms EXCEPT !.selectedPhoneId = id]
    /\ UNCHANGED <<form, needsCode, loading, codeInput, sessionRef, submit,
                   hookTask>>
    /\ UNCHANGED <<inFlight, signalled, hist>>
    /\ UNCHANGED <<authVars, signinVars, fnVars>>

\* verifySmsCode(code) is called (useSmsVerification.ts lines 151-162) by a
\* caller that goes on to authenticate when it resolves.
CallVerifySmsCode ==
    /\ hookTask.pc = "idle"
    /\ submit = SubmitIdle
    /\ LET s == [SubmitIdle EXCEPT !.smsWasVerified = TRUE,
                                   !.code = "123456",
                                   !.needsCode = TRUE]
       IN IF VerifyRefused(sessionRef, sms.selectedPhoneId)
          THEN submit' = AfterVerifyRejected(
                             [s EXCEPT !.verifySmsCode = "rejected"])
          ELSE submit' = [s EXCEPT !.pc = "verify",
                                   !.session = sessionRef,
                                   !.phoneId = sms.selectedPhoneId]
    /\ loading' = (submit'.pc # "idle")
    /\ UNCHANGED <<form, needsCode, codeInput, sms, sessionRef, hookTask>>
    /\ inFlight' = Begun(inFlight, WaitingSubmit(submit'))
    /\ UNCHANGED <<signalled, hist>>
    /\ UNCHANGED <<authVars, signinVars, fnVars>>

\* The caller of verifySmsCode is done: it caught the error, or it went on
\* to authenticate.
CallerReturns ==
    /\ submit # SubmitIdle
    /\ submit.pc \in {"idle", "authenticate"}
    /\ submit' = SubmitIdle
    /\ loading' = FALSE
    /\ UNCHANGED <<form, needsCode, codeInput, sms, sessionRef, hookTask>>
    /\ inFlight' = Settle(inFlight, WaitingSubmit(submit))
    /\ UNCHANGED <<signalled, hist>>
    /\ UNCHANGED <<authVars, signinVars, fnVars>>

\* resetSms() is called.
CallResetSms ==
    /\ ResetSms
    /\ UNCHANGED <<form, needsCode, loading, codeInput, submit>>
    /\ UNCHANGED <<inFlight, signalled>>
    /\ UNCHANGED <<authVars, signinVars, fnVars>>

HookInit == UiInit

HookNext ==
    \/ CallInitiateSms
    \/ CallSendSms
    \/ CallSetSelectedPhoneId
    \/ CallVerifySmsCode
    \/ CallResetSms
    \/ SigninReturns
    \/ SigninThrows
    \/ PhonesArrive
    \/ PhonesFail
    \/ SmsArrives
    \/ SmsFails
    \/ VerifyArrives
    \/ VerifyFails
    \/ TrustArrives
    \/ TrustFails
    \/ CallerReturns

SpecHook == HookInit /\ [][HookNext]_vars

\* An answer to the request initiateSms or sendSms is waiting for.
HookAnswers ==
    \/ SigninReturns
    \/ SigninThrows
    \/ PhonesArrive
    \/ PhonesFail
    \/ SmsArrives
    \/ SmsFails

\* Every network call of the hook returns or fails.
SpecHookLive == HookInit /\ [][HookNext]_vars /\ WF_vars(HookAnswers)

(***************************************************************************)
(* Claims about the forms and the hook.                                    *)
(***************************************************************************)

\* The handler slots describe the running handlers: a handler runs exactly
\* while its busy flag is set, so no click finds a handler already running.
HandlerSlotsFaithful ==
    /\ Mounted => (loading <=> submit.pc \in {"verify", "trust", "authenticate"})
    /\ hookTask.pc # "idle" => sms.smsLoading

\* The code verification of the running or last submission got a success
\* status from the identity provider.
VerificationSucceeded == submit.verifyStatus \in {200, 204}

\* C11: in a submission of either form, authenticate is called with
\* smsVerified = true only after the code verification of that submission
\* returned successfully, and it is not called at all when verifySmsCode
\* threw.
C11_SmsVerifiedOnlyAfterVerification ==
    /\ (submit.called /\ submit.authSmsVerified) =>
          /\ VerificationSucceeded
          /\ submit.verifySmsCode = "resolved"
    /\ submit.verifySmsCode = "rejected" =>
          /\ ~submit.called
          /\ submit.pc = "idle"
          /\ submit.outcome = "error"
    /\ submit.pc = "authenticate" => submit.called

\* AccountDetail called authenticate with smsVerified = true.
C11_Witness ==
    /\ form = "AccountDetail"
    /\ submit.called
    /\ submit.authSmsVerified
    /\ submit.verifyStatus = 204

\* C12: the trust-token request is sent only after the code verification
\* succeeded, and once it is answered (token, empty, or failure)
\* verifySmsCode has completed successfully and the submission goes on to
\* authenticate.
C12_TrustFailureNotFatal ==
    /\ submit.trust # "none" => VerificationSucceeded
    /\ submit.trust \in {"token", "empty", "thrown"} =>
          /\ submit.verifySmsCode = "resolved"
          /\ submit.called
    /\ submit.verifySmsCode = "resolved" =>
          submit.trust \in {"token", "empty", "thrown"}

\* The trust-token fetch threw and verifySmsCode completed all the same.
C12_Witness ==
    /\ submit.trust = "thrown"
    /\ submit.verifySmsCode = "resolved"
    /\ submit.pc = "authenticate"

\* C26: under the button guards no two calls of one kind overlap: at no time
\* are two requests of one identity-provider session in flight together, nor
\* two idmsaSignin calls, nor two authenticate calls of the form, whatever
\* the interleaving of submit, initiateSms, sendSms and resetSms.
C26_NoConcurrentCoreCalls == \A k \in CallKinds : inFlight[k] <= 1

\* sendSms is waiting for its session's answer while the submit handler is
\* waiting for authenticate: calls do overlap, only not two of one kind.
C26_Witness ==
    /\ inFlight["authenticate"] = 1
    /\ hookTask.op = "sendSms"
    /\ hookTask.pc = "sms"
    /\ inFlight[hookTask.session.sessionId] = 1

\* The SMS sub-flow has been started: initiateSms or sendSms runs, or the
\* hook is in SMS mode.
SmsFlowStarted == hookTask.op # "none" \/ sms.smsMode

\* C27: the first authenticate call of a form carries no code.  Until an
\* authenticate call of the form has signalled that a code is required, the
\* code field is closed, the SMS sub-flow has not been started, and every
\* authenticate call has code undefined and smsVerified false.
C27_CodeOnlyAfterVerificationRequired ==
    /\ needsCode => signalled
    /\ SmsFlowStarted => signalled
    /\ submit.called /\ ~signalled =>
           /\ submit.authCode = Undef
           /\ submit.authSmsVerified = FALSE
    /\ submit.called /\ (submit.authCode # Undef \/ submit.authSmsVerified)
           => signalled /\ submit.needsCode

\* After the code request the form calls authenticate again, this time with
\* a code that was verified by SMS.
C27_Witness ==
    /\ signalled
    /\ submit.pc = "authenticate"
    /\ submit.authCode # Undef
    /\ submit.authSmsVerified
    /\ sms.smsMode

(***************************************************************************)
(* The hook by itself                                                      *)
(***************************************************************************)

\* This step is initiateSms receiving the enumeration of the phones.
EnumerationAnswered == hookTask.pc = "phones" /\ hist'.enumeration.reported

\* The enumeration reports a rate limit.
RateLimited(e) ==
    e.securityCodeLocked \/ e.tooManyCodesSent \/ e.securityCodeCooldown

\* The flag of the hook that matches a rate-limited enumeration.
MatchingFlag(e) ==
    IF e.securityCodeLocked THEN "codeLocked"
    ELSE IF e.tooManyCodesSent THEN "tooManyCodes"
    ELSE "cooldown"

\* No request is begun in this step: the answered one is settled and the
\* operation is over.
OperationEnds ==
    /\ hookTask' = HookIdle
    /\ inFlight' = Settle(inFlight, WaitingHook(hookTask))

\* C34: when the enumeration reports securityCodeLocked, tooManyCodesSent or
\* securityCodeCooldown, initiateSms stops there: it sends no SMS request,
\* sets the one matching flag and clears smsLoading, and leaves smsSent
\* false and the phone list, and everything else, as they were.
C34_RateLimitedStopsAfterEnumeration ==
    [][(EnumerationAnswered /\ RateLimited(hist'.enumeration)) =>
          /\ OperationEnds
          /\ sms' = [sms EXCEPT ![MatchingFlag(hist'.enumeration)] = TRUE,
                                !.smsLoading = FALSE]
          /\ sms'.smsSent = FALSE
          /\ sms'.phoneNumbers = sms.phoneNumbers
          /\ sessionRef' = sessionRef]_vars

\* initiateSms stopped on a cooldown although the enumeration listed phones
\* other than the ones the hook holds from an earlier enumeration.
C34_Witness ==
    /\ hist.enumeration.reported
    /\ hist.enumeration.securityCodeCooldown
    /\ hist.enumeration.trustedPhoneNumbers = <<PhoneA>>
    /\ sms.phoneNumbers = <<PhoneA, PhoneB>>
    /\ sms.cooldown
    /\ ~sms.smsSent
    /\ hookTask = HookIdle

\* The rate-limit flags of the hook that are set.
FlagsSet == {f \in {"codeLocked", "tooManyCodes", "cooldown"} : sms[f]}

\* C35: at most one of codeLocked, tooManyCodes and cooldown is true, and
\* the one that is set after an enumeration is the first that the
\* enumeration reported, in the order locked, too many codes, cooldown; so
\* cooldown is not set when the enumeration reported tooManyCodesSent.
C35_OneRateLimitFlag ==
    /\ Cardinality(FlagsSet) <= 1
    /\ hist.enumeration.reported =>
          LET e == hist.enumeration
          IN /\ sms.codeLocked => e.securityCodeLocked
             /\ sms.tooManyCodes =>
                   e.tooManyCodesSent /\ ~e.securityCodeLocked
             /\ sms.cooldown =>
                   /\ e.securityCodeCooldown
                   /\ ~e.tooManyCodesSent
                   /\ ~e.securityCodeLocked

\* The enumeration reported tooManyCodesSent, and with it a cooldown; the
\* hook shows tooManyCodes only.
C35_Witness ==
    /\ hist.enumeration.reported
    /\ hist.enumeration.tooManyCodesSent
    /\ hist.enumeration.securityCodeCooldown
    /\ FlagsSet = {"tooManyCodes"}

\* C36: with no rate limit reported, initiateSms sends the SMS itself
\* exactly when one phone is listed; with no phone it records an error and
\* sends nothing; with two or more it selects the first and sends nothing,
\* and a dispatch for such a list is the work of sendSms.
C36_AutoSendOnlyForSinglePhone ==
    /\ [][(EnumerationAnswered /\ ~RateLimited(hist'.enumeration)) =>
            LET phones == hist'.enumeration.trustedPhoneNumbers
            IN /\ sms'.phoneNumbers = phones
               /\ sms'.smsSent = FALSE
               /\ Len(phones) = 0 =>
                     /\ OperationEnds
                     /\ sms'.smsError = ErrNoPhoneNumbers
                     /\ sms'.smsLoading = FALSE
               /\ Len(phones) = 1 =>
                     /\ hookTask' = [hookTask EXCEPT !.pc = "sms",
                                        !.targetId = phones[1].id,
                                        !.phones = phones]
                     /\ inFlight' = inFlight
                     /\ sms'.selectedPhoneId = phones[1].id
                     /\ sms'.smsLoading = sms.smsLoading
               /\ Len(phones) >= 2 =>
                     /\ OperationEnds
                     /\ sms'.selectedPhoneId = phones[1].id
                     /\ sms'.smsLoading = FALSE
                     /\ sms'.smsError = sms.smsError]_vars
    /\ [](hookTask.pc = "sms" =>
            \/ hookTask.op = "sendSms"
            \/ hookTask.op = "initiateSms" /\ Len(hookTask.phones) = 1)

\* After an enumeration of two phones sendSms is dispatching to the second.
C36_Witness ==
    /\ hookTask.op = "sendSms"
    /\ hookTask.pc = "sms"
    /\ hookTask.phones = <<PhoneA, PhoneB>>
    /\ hookTask.targetId = PhoneB.id
    /\ sms.phoneNumbers = <<PhoneA, PhoneB>>
    /\ ~sms.smsSent

\* This step is initiateSms or sendSms receiving the answer to its dispatch
\* request, or its transport failure.
DispatchAnswered == hookTask.pc = "sms" /\ hist'.smsStatus.answered

\* The dispatch request returned success.
DispatchSucceeded(status) == status \in {200, 202}

\* C37: smsSent is true only if a dispatch request returned success since
\* the last start of initiateSms or resetSms; as long as resetSms was never
\* called while smsLoading was true, smsSent implies that a session is held
\* and a phone is selected; a failed dispatch leaves smsSent as it was and
\* records smsError.
C37_SentOnlyAfterDispatch ==
    /\ [](sms.smsSent => hist.dispatched)
    /\ [](sms.smsSent /\ ~hist.resetWhileLoading =>
             /\ sessionRef # NoSession
             /\ sms.selectedPhoneId # NullPhoneId)
    /\ [][DispatchAnswered =>
            IF DispatchSucceeded(hist'.smsStatus.status)
            THEN /\ sms'.smsSent
                 /\ sms'.smsError = sms.smsError
            ELSE /\ sms'.smsSent = sms.smsSent
                 /\ sms'.smsError \in {ErrSmsRequestFailed, ErrNetwork}
                 /\ sms'.smsLoading = FALSE]_vars

\* sendSms was refused by the identity provider: no SMS counts as sent and
\* the error is shown, with the session and the selection still held.
C37_Witness ==
    /\ hist.smsStatus.status = 400
    /\ ~hist.resetWhileLoading
    /\ ~sms.smsSent
    /\ sms.smsError = ErrSmsRequestFailed
    /\ sessionRef # NoSession
    /\ Len(sms.phoneNumbers) = 2
    /\ hookTask = HookIdle

\* This step is a call of verifySmsCode.
VerifySmsCodeCalled == submit = SubmitIdle /\ submit' # SubmitIdle

\* This step is a call of sendSms.
SendSmsCalled ==
    /\ hist' # hist
    /\ hist'.call \in {"sendSms", "sendSms returned early"}
    /\ hookTask.pc = "idle"

\* Nothing of the hook changes and no request is begun in this step.
NothingSent ==
    /\ sms' = sms
    /\ sessionRef' = sessionRef
    /\ hookTask' = hookTask
    /\ inFlight' = inFlight

\* C38: verifySmsCode without a held session or without a selected phone
\* throws and sends no request, and otherwise sends the verification
\* request of the held session; sendSms without a held session or without a
\* target phone returns with no request sent and no state changed, and
\* otherwise dispatches for the held session and a target.
C38_RefusedWithoutSessionOrPhone ==
    /\ [][VerifySmsCodeCalled =>
            IF sessionRef = NoSession \/ sms.selectedPhoneId = NullPhoneId
            THEN /\ submit'.verifySmsCode = "rejected"
                 /\ submit'.pc = "idle"
                 /\ submit'.called = FALSE
                 /\ NothingSent
            ELSE /\ submit'.pc = "verify"
                 /\ submit'.session = sessionRef
                 /\ submit'.phoneId = sms.selectedPhoneId
                 /\ inFlight' = Begun(inFlight, sessionRef.sessionId)]_vars
    /\ [][SendSmsCalled =>
            IF hist'.call = "sendSms returned early"
            THEN /\ sessionRef = NoSession
                    \/ sms.selectedPhoneId = NullPhoneId
                 /\ NothingSent
            ELSE /\ sessionRef # NoSession
                 /\ hookTask'.pc = "sms"
                 /\ hookTask'.session = sessionRef
                 /\ hookTask'.targetId # NullPhoneId
                 /\ inFlight' = Begun(inFlight, sessionRef.sessionId)]_vars
    /\ [](sessionRef = NoSession /\ hist.call = "sendSms returned early"
             => hookTask = HookIdle /\ ~sms.smsLoading)

\* sendSms returned early for lack of a session although a phone is
\* selected, and verifySmsCode was then refused for the same reason.
C38_Witness ==
    /\ hist.call = "sendSms returned early"
    /\ sessionRef = NoSession
    /\ sms.selectedPhoneId # NullPhoneId
    /\ submit.verifySmsCode = "rejected"
    /\ submit.verifyStatus = 0
    /\ submit.pc = "idle"
    /\ inFlight = NoneInFlight

\* initiateSms or sendSms is waiting for an answer.
OperationRunning == hookTask.pc # "idle"

\* C39: an initiateSms or sendSms that set smsLoading comes to its end when
\* every network call returns or fails, and smsLoading is false when it
\* ends, whichever way it ends; smsLoading is never left set with no
\* operation running.
C39_LoadingEventuallyCleared ==
    /\ OperationRunning ~> (~OperationRunning /\ ~sms.smsLoading)
    /\ sms.smsLoading ~> ~sms.smsLoading
    /\ [](~OperationRunning => ~sms.smsLoading)
    /\ [][OperationRunning /\ hookTask'.pc = "idle" =>
             sms'.smsLoading = FALSE]_vars

\* An initiateSms ended in the catch block after a transport failure of the
\* enumeration, with smsLoading cleared.
C39_Witness ==
    /\ hist.call = "initiateSms"
    /\ ~OperationRunning
    /\ sessionRef # NoSession
    /\ sms.smsError = ErrNetwork
    /\ sms.smsMode
    /\ ~sms.smsLoading

\* This step is a call of resetSms.
ResetSmsCalled == hist'.resetsOdd # hist.resetsOdd

\* The state of the hook after resetSms, as C40 lists it.
AsMounted(h) ==
    /\ h.smsMode = FALSE
    /\ h.smsLoading = FALSE
    /\ h.smsSent = FALSE
    /\ h.cooldown = FALSE
    /\ h.tooManyCodes = FALSE
    /\ h.codeLocked = FALSE
    /\ h.phoneNumbers = <<>>
    /\ h.selectedPhoneId = NullPhoneId
    /\ h.smsPhone = Null
    /\ h.smsError = Null
    /\ h = SmsInitial

\* C40: from any state, resetSms leaves the hook as it was when mounted and
\* holds no session; applied to its own result it changes nothing.
C40_ResetRestoresInitialState ==
    /\ [][ResetSmsCalled =>
             /\ AsMounted(sms')
             /\ sessionRef' = NoSession
             /\ sms' = ResetState(sms)]_vars
    /\ [](/\ AsMounted(ResetState(sms))
          /\ ResetState(ResetState(sms)) = ResetState(sms))

\* resetSms was called while an auto-send was waiting for its answer and
\* again after the answer had set smsSent, and the hook is as mounted.
C40_Witness ==
    /\ hist.call = "resetSms"
    /\ hist.resetWhileLoading
    /\ ~hist.resetsOdd
    /\ sms = SmsInitial
    /\ sessionRef = NoSession
    /\ hookTask = HookIdle

(***************************************************************************)
(* The identity-provider functions of idmsa.ts, one call at a time:        *)
(* idmsaGetPhoneNumbers (lines 214-248), idmsaRequestSms (250-271),        *)
(* idmsaVerifySmsCode (278-311), idmsaGetTrustToken (317-344) and          *)
(* derivePassword (63-93).                                                 *)
(***************************************************************************)

ErrSmsVerifyFailed == "IDMSA SMS verify failed"
ErrTrustTokenFailed == "IDMSA trust token request failed"

FnReturned(v) == [kind |-> "returned", value |-> v]
FnThrown(e) == [kind |-> "thrown", error |-> e]

\* The statuses the identity provider can answer with.
FnStatuses == {200, 201, 202, 204, 400, 401, 409, 500}

\* idmsa.ts lines 34-55 and the appleRequest call of each function.
FnRequest(path, method, session, phoneId, securityCode) ==
    [host |-> IdmsaHost, path |-> path, method |-> method,
     sessionId |-> session.sessionId, scnt |-> session.scnt,
     phoneId |-> phoneId, code |-> securityCode]

Called(fn, request) == [fn |-> fn, pc |-> "await", request |-> request]

Settled(resp, res) ==
    /\ fnResp' = resp
    /\ fnResult' = res
    /\ fnCall' = [fnCall EXCEPT !.pc = "done"]

\* idmsa.ts lines 217-222.
GetPhoneNumbersRequest ==
    /\ fnCall.pc = "idle"
    /\ \E session \in Sessions :
        fnCall' = Called("idmsaGetPhoneNumbers",
                         FnRequest("/appleauth/auth", "GET", session,
                                   NullPhoneId, ""))
    /\ UNCHANGED <<fnResp, fnResult>>
    /\ UNCHANGED <<authVars, signinVars, uiVars>>

\* idmsa.ts lines 224-247.
IdmsaGetPhoneNumbers(resp) ==
    IF resp.status # 200 THEN FnThrown(ErrAuthInfoFailed)
    ELSE FnReturned(PhoneNumbersResult(resp))

FnPhoneResponses ==
    PhoneResponses \cup
    [status : FnStatuses \ {200}, trustedPhoneNumbers : {<<PhoneA>>},
     securityCodeCooldown : {"false"}, tooManyCodesSent : {"true"},
     securityCodeLocked : {"false"}]

GetPhoneNumbersResponse ==
    /\ fnCall.pc = "await"
    /\ fnCall.fn = "idmsaGetPhoneNumbers"
    /\ \E resp \in FnPhoneResponses :
        Settled([arrived |-> "response", status |-> resp.status, body |-> resp],
                IdmsaGetPhoneNumbers(resp))
    /\ UNCHANGED <<authVars, signinVars, uiVars>>

\* idmsa.ts lines 254-263.
RequestSmsRequest ==
    /\ fnCall.pc = "idle"
    /\ \E session \in Sessions, phone \in {PhoneA, PhoneB} :
        fnCall' = Called("idmsaRequestSms",
                         FnRequest("/appleauth/auth/verify/phone", "PUT",
                                   session, phone.id, ""))
    /\ UNCHANGED <<fnResp, fnResult>>
    /\ UNCHANGED <<authVars, signinVars, uiVars>>

\* idmsa.ts lines 266-270.
IdmsaRequestSms(resp) ==
    IF ~SmsAccepted(resp.status) THEN FnThrown(ErrSmsRequestFailed)
    ELSE FnReturned(Undef)

RequestSmsResponse ==
    /\ fnCall.pc = "await"
    /\ fnCall.fn = "idmsaRequestSms"
    /\ \E status \in FnStatuses :
        Settled([arrived |-> "response", status |-> status],
                IdmsaRequestSms([status |-> status]))
    /\ UNCHANGED <<authVars, signinVars, uiVars>>

\* idmsa.ts lines 285-295.
VerifySmsCodeRequest ==
    /\ fnCall.pc = "idle"
    /\ \E session \in Sessions, phone \in {PhoneA, PhoneB} :
        fnCall' = Called("idmsaVerifySmsCode",
                         FnRequest("/appleauth/auth/verify/phone/securitycode",
                                   "POST", session, phone.id, "123456"))
    /\ UNCHANGED <<fnResp, fnResult>>
    /\ UNCHANGED <<authVars, signinVars, uiVars>>

\* idmsa.ts lines 304-310.
IdmsaVerifySmsCode(resp) ==
    IF ~VerifyAccepted(resp.status) THEN FnThrown(ErrSmsVerifyFailed)
    ELSE FnReturned(Undef)

VerifySmsCodeResponse ==
    /\ fnCall.pc = "await"
    /\ fnCall.fn = "idmsaVerifySmsCode"
    /\ \E status \in FnStatuses :
        Settled([arrived |-> "response", status |-> status],
                IdmsaVerifySmsCode([status |-> status]))
    /\ UNCHANGED <<authVars, signinVars, uiVars>>

\* idmsa.ts lines 322-327.
GetTrustTokenRequest ==
    /\ fnCall.pc = "idle"
    /\ \E session \in Sessions :
        fnCall' = Called("idmsaGetTrustToken",
                         FnRequest("/appleauth/auth/2sv/trust", "GET", session,
                                   NullPhoneId, ""))
    /\ UNCHANGED <<fnResp, fnResult>>
    /\ UNCHANGED <<authVars, signinVars, uiVars>>

\* idmsa.ts lines 335-343.
IdmsaGetTrustToken(resp) ==
    IF TrustToken(resp) = "thrown" THEN FnThrown(ErrTrustTokenFailed)
    ELSE FnReturned(Coalesce(resp.token, ""))

GetTrustTokenResponse ==
    /\ fnCall.pc = "await"
    /\ fnCall.fn = "idmsaGetTrustToken"
    /\ \E status \in FnStatuses, token \in {Undef, "", "TT1"} :
        Settled([arrived |-> "response", status |-> status, token |-> token],
                IdmsaGetTrustToken([status |-> status, token |-> token]))
    /\ UNCHANGED <<authVars, signinVars, uiVars>>

\* appleRequest rejects; none of the four functions catches it.
FnRequestFails ==
    /\ fnCall.pc = "await"
    /\ Settled([arrived |-> "rejected"], FnThrown(ErrNetwork))
    /\ UNCHANGED <<authVars, signinVars, uiVars>>

\* The arguments derivePassword is called with.
DeriveArguments ==
    [protocol : {"s2k", "s2k_fo"}, password : {Password, "correct horse"},
     salt : {ServerSalt, "salt2"}, iterations : {1000, 20000}]

\* idmsa.ts lines 63-93: derivePassword sends nothing.
DerivePasswordCall ==
    /\ fnCall.pc = "idle"
    /\ \E a \in DeriveArguments :
        /\ fnCall' = [fn |-> "derivePassword", pc |-> "done", request |-> a]
        /\ fnResult' = FnReturned(DerivePassword(a.protocol, a.password,
                                                 a.salt, a.iterations))
    /\ UNCHANGED fnResp
    /\ UNCHANGED <<authVars, signinVars, uiVars>>

FnInit ==
    /\ FnIdle
    /\ AuthIdle
    /\ SigninIdle
    /\ UiIdle

FnNext ==
    \/ GetPhoneNumbersRequest
    \/ GetPhoneNumbersResponse
    \/ RequestSmsRequest
    \/ RequestSmsResponse
    \/ VerifySmsCodeRequest
    \/ VerifySmsCodeResponse
    \/ GetTrustTokenRequest
    \/ GetTrustTokenResponse
    \/ FnRequestFails
    \/ DerivePasswordCall

SpecFn == FnInit /\ [][FnNext]_vars

(***************************************************************************)
(* Claims about the identity-provider functions.                           *)
(***************************************************************************)

FnAnswered(fn) ==
    /\ fnCall.fn = fn
    /\ fnCall.pc = "done"
    /\ fnResp.arrived = "response"

\* C23: the cooldown idmsaGetPhoneNumbers reports is true exactly when the
\* securityCodeCooldown flag or the tooManyCodesSent flag of the body is
\* true, so a reported tooManyCodesSent always comes with cooldown.
C23_CooldownUnion ==
    (FnAnswered("idmsaGetPhoneNumbers") /\ fnResult.kind = "returned") =>
        /\ fnResult.value.securityCodeCooldown <=>
              (\/ fnResp.body.securityCodeCooldown = "true"
               \/ fnResp.body.tooManyCodesSent = "true")
        /\ fnResult.value.tooManyCodesSent <=>
              (fnResp.body.tooManyCodesSent = "true")
        /\ fnResult.value.tooManyCodesSent
              => fnResult.value.securityCodeCooldown

\* {tooManyCodesSent: true, securityCodeCooldown: false} gave cooldown true.
C23_Witness ==
    /\ FnAnswered("idmsaGetPhoneNumbers")
    /\ fnResult.kind = "returned"
    /\ fnResp.body.tooManyCodesSent = "true"
    /\ fnResp.body.securityCodeCooldown = "false"
    /\ fnResult.value.securityCodeCooldown

\* C24: idmsaVerifySmsCode returns exactly when the status is 200 or 204;
\* for every other status it throws the verify error.
C24_VerifyAcceptedStatuses ==
    FnAnswered("idmsaVerifySmsCode") =>
        /\ fnResult.kind = "returned" <=> fnResp.status \in {200, 204}
        /\ fnResp.status \notin {200, 204} =>
              fnResult = FnThrown(ErrSmsVerifyFailed)

\* A 202 answer to the verification was reported as an error.
C24_Witness ==
    /\ FnAnswered("idmsaVerifySmsCode")
    /\ fnResp.status = 202
    /\ fnResult.kind = "thrown"

\* C25: idmsaRequestSms returns exactly when the status is 200 or 202; for
\* every other status it throws the dispatch error.
C25_SmsAcceptedStatuses ==
    FnAnswered("idmsaRequestSms") =>
        /\ fnResult.kind = "returned" <=> fnResp.status \in {200, 202}
        /\ fnResp.status \notin {200, 202} =>
              fnResult = FnThrown(ErrSmsRequestFailed)

\* A 202 answer to the dispatch was reported as sent.
C25_Witness ==
    /\ FnAnswered("idmsaRequestSms")
    /\ fnResp.status = 202
    /\ fnResult.kind = "returned"

OtherProtocol(protocol) == IF protocol = "s2k" THEN "s2k_fo" ELSE "s2k"

\* C29: the key derivePassword returns is determined by its arguments:
\* PBKDF2 over the hex string of SHA256(password) for s2k_fo and over
\* SHA256(password) itself for s2k, with the salt and iteration count
\* given; the other protocol gives a different key for the same arguments.
C29_DerivePasswordByProtocol ==
    (fnCall.fn = "derivePassword" /\ fnResult.kind = "returned") =>
        LET a == fnCall.request
            h == Sha256(a.password)
        IN /\ a.protocol = "s2k_fo" =>
                 fnResult.value = Pbkdf2(ToHex(h), a.salt, a.iterations)
           /\ a.protocol = "s2k" =>
                 fnResult.value = Pbkdf2(h, a.salt, a.iterations)
           /\ fnResult.value # DerivePassword(OtherProtocol(a.protocol),
                                              a.password, a.salt, a.iterations)

\* A key was derived for s2k_fo.
C29_Witness ==
    /\ fnCall.fn = "derivePassword"
    /\ fnResult.kind = "returned"
    /\ fnCall.request.protocol = "s2k_fo"
    /\ fnCall.request.iterations = 20000

====
